---- MODULE Spec2Model ----
(***************************************************************************)
(* Model of the document ingestion and question-answering pipeline of the  *)
(* "self" backend (Go): text extraction, sentence-aware chunking, the      *)
(* store (content_items / chunks / embeddings), hybrid search, and the     *)
(* LLM-backed answer extraction and ranking.                               *)
(*                                                                         *)
(* Representation of text.  A text is given by its sentence decomposition: *)
(* a sequence of sentence descriptors [n, wlen, digit, stop], a sentence   *)
(* of n words of wlen characters each, separated by single spaces and      *)
(* closed by a terminator; digit says that the first word is a number and  *)
(* stop that its words are stop words.  A chunk string is a sequence of    *)
(* spans [id, from, to, ...]: the units from..to of sentence id of the     *)
(* input, joined by single spaces.  A unit is a word when the word-count   *)
(* fallback is active and a BPE token when the tokenizer is (tk); a span   *)
(* carries the attributes of its sentence.                                 *)
(*                                                                         *)
(* Floating point confidences are modelled in tenths (1 stands for 0.1).   *)
(***************************************************************************)
EXTENDS Integers, Sequences, FiniteSets, TLC

VARIABLES
    \* ---- process configuration
    tokenizerLoaded, \* NewTokenizerService succeeded: ChunkService.tokenizer # nil
    apiKeySet,      \* OPENAI_API_KEY is set: EmbeddingService.client # nil
    claudeKeySet,   \* config.ClaudeAPIKey # ""
    \* ---- the store and the services built over it (Spec)
    nextId,         \* the next fresh content item id (uuid.New)
    contentItems,   \* rows of content_items
    chunks,         \* rows of chunks
    embeddings,     \* rows of embeddings
    tasks,          \* background ingestion goroutines, by content item id
    resp,           \* the response sent by the last step, NoResp if it sent none
    \* ---- ChunkService exercised alone (SpecChunk)
    ckText,         \* the text argument
    ckMaxTokens,    \* the maxTokens argument
    ckOut,          \* the result of SmartChunkBySentences, once it returned
    \* ---- RankAnswersByConfidence exercised alone (SpecRank)
    rkIn,           \* the answers argument
    rkOut,          \* the returned slice, once it returned
    \* ---- the LLM adaptors exercised alone (SpecAdaptor)
    adClient,       \* "claude" or "openai"
    adReply,        \* what the provider sent back
    adOut,          \* the result of AnswerExtractionService.ExtractAnswer, once it returned
    \* ---- the answer stage of QASearch exercised alone (SpecQA)
    qaIn,           \* the candidate chunks, the provider's replies, the request's limit
    qaOut,          \* what the answer stage returned, once it returned
    \* ---- the database schema exercised alone (SpecStore)
    dbUsers,        \* rows of users
    dbSchema,       \* which statements created the tables: "modern" or "test"
    \* ---- combineResults and prepareCandidateChunks exercised alone (SpecFusion)
    fuIn,           \* the vector results, the text results, the limit
    fuOut,          \* what the two functions returned, once they returned
    \* ---- vectorSearch exercised alone on any store (SpecVector)
    vsOut,          \* what vectorSearch returned, once it returned
    \* ---- extractHTMLText exercised alone (SpecHTML)
    htIn,           \* the tokens of the document
    htOut,          \* the extracted text, once the call returned
    \* ---- ChatService over its tables (SpecChat)
    chConvs,        \* rows of chat_conversations
    chMessages,     \* rows of chat_messages, in the order of created_at
    chOut,          \* what the last ProcessMessage did and returned
    \* ---- one PipelineLogger shared by testPipelineHandler and its task (SpecLog)
    lgSteps,        \* PipelineLogger.Steps
    lgHandler,      \* the handler: where it is and what it has read
    lgTask          \* the background task: where it is

configVars == <<tokenizerLoaded, apiKeySet, claudeKeySet>>
storeVars == <<nextId, contentItems, chunks, embeddings, tasks, resp>>
chunkVars == <<ckText, ckMaxTokens, ckOut>>
rankVars == <<rkIn, rkOut>>
adaptorVars == <<adClient, adReply, adOut>>
qaVars == <<qaIn, qaOut>>
schemaVars == <<dbUsers, dbSchema>>
fusionVars == <<fuIn, fuOut>>
vectorVars == <<vsOut>>
htmlVars == <<htIn, htOut>>
chatVars == <<chConvs, chMessages, chOut>>
logVars == <<lgSteps, lgHandler, lgTask>>
moreVars == <<htmlVars, chatVars, logVars>>
harnessVars == <<schemaVars, fusionVars, vectorVars, moreVars>>
vars == <<configVars, storeVars, chunkVars, rankVars, adaptorVars, qaVars, harnessVars>>

\* The result slot of a call: empty until the call has returned.
NotRun == [done |-> FALSE]
Returned(v) == [done |-> TRUE, out |-> v]

\* ------------------------------------------------------------------------
\* Generic helpers
\* ------------------------------------------------------------------------

Min(a, b) == IF a < b THEN a ELSE b

RECURSIVE SeqSum(_)
SeqSum(s) == IF s = <<>> THEN 0 ELSE Head(s) + SeqSum(Tail(s))

RECURSIVE SeqsUpTo(_, _)
\* All sequences over S of length at most n.
SeqsUpTo(S, n) ==
    IF n = 0 THEN {<<>>}
    ELSE LET shorter == SeqsUpTo(S, n - 1)
         IN shorter \cup {Append(s, x) : s \in {t \in shorter : Len(t) = n - 1}, x \in S}

\* ------------------------------------------------------------------------
\* Tokenizer and chunker (chunk_service.go, tokenizer_service.go)
\* ------------------------------------------------------------------------

\* The overlap SmartChunkBySentences passes to ChunkWithOverlap.
Overlap == 50

\* The token limit the ingestion pipeline chunks with.
PipelineMaxTokens == 400

\* The length a sentence must exceed to be kept by smartSentenceSplit.
MinSentenceLen == 10

\* len(sentence) in bytes: n words of wlen characters, n-1 spaces, 1 terminator.
SentenceChars(s) == s.n * s.wlen + (s.n - 1) + 1

\* The number of units of a sentence standing alone (trimmed).  Words with
\* the fallback; with the cl100k_base encoder each word is one token (a
\* letter word absorbs the space before it) and the terminator is one more.
SentenceUnits(tokenizer, s) == IF tokenizer THEN s.n + 1 ELSE s.n

\* The span of a whole sentence, as written into a chunk.
FullSpan(tokenizer, id, s) ==
    [id |-> id, from |-> 1, to |-> SentenceUnits(tokenizer, s), tk |-> tokenizer,
     n |-> s.n, wlen |-> s.wlen, digit |-> s.digit, stop |-> s.stop]

SpanLen(sp) == sp.to - sp.from + 1

RECURSIVE JoinTokens(_, _)
\* The extra tokens the encoder produces for the spaces that join the spans
\* of a chunk: a number does not absorb the space before it (the pattern
\* \p{N}{1,3} has no optional leading space), so that space is a token.
JoinTokens(chunk, k) ==
    IF k > Len(chunk) THEN 0
    ELSE (IF k > 1 /\ chunk[k].digit /\ chunk[k].from = 1 THEN 1 ELSE 0)
         + JoinTokens(chunk, k + 1)

\* TokenizerService.CountTokens on a chunk string: len(encoder.Encode(text)).
TokenizerCountTokens(chunk) ==
    SeqSum([k \in 1..Len(chunk) |-> SpanLen(chunk[k])]) + JoinTokens(chunk, 1)

\* ChunkService.CountTokens: the tokenizer when there is one, else
\* len(strings.Fields(text)).
CountTokens(tokenizer, chunk) ==
    IF tokenizer THEN TokenizerCountTokens(chunk)
    ELSE SeqSum([k \in 1..Len(chunk) |-> SpanLen(chunk[k])])

\* smartSentenceSplit: the sentences of the normalised text, each with its
\* terminator, without those of at most MinSentenceLen bytes.  The result
\* keeps each sentence's position in the input as its id.
smartSentenceSplit(text) ==
    LET keep == {i \in 1..Len(text) : SentenceChars(text[i]) > MinSentenceLen}
        RECURSIVE Collect(_)
        Collect(i) ==
            IF i > Len(text) THEN <<>>
            ELSE IF i \in keep THEN <<[id |-> i, s |-> text[i]]>> \o Collect(i + 1)
            ELSE Collect(i + 1)
    IN Collect(1)

RECURSIVE WindowsEndToEnd(_, _, _, _, _)
\* A variant of the loop whose next window starts where the last one ended.
WindowsEndToEnd(total, chunkSize, overlap, start, acc) ==
    LET end == Min(start + chunkSize, total)
        acc2 == Append(acc, [from |-> start + 1, to |-> end])
    IN IF end = total THEN [windows |-> acc2, hang |-> FALSE]
       ELSE WindowsEndToEnd(total, chunkSize, overlap, end, acc2)

RECURSIVE OverlapWindows(_, _, _, _, _)
\* The loop of chunkWithOverlapTokenized / chunkWithOverlapWordBased over a
\* text of total units, from window start `start` (0-based), with the
\* windows collected so far.  hang: the loop has reached a start it never
\* leaves, so the call appends windows forever and never returns.
OverlapWindows(total, chunkSize, overlap, start, acc) ==
    LET end == Min(start + chunkSize, total)
        acc2 == Append(acc, [from |-> start + 1, to |-> end])
        next == IF end - overlap <= 0 THEN 1 ELSE end - overlap
    IN IF end = total THEN [windows |-> acc2, hang |-> FALSE]
       ELSE IF next <= start THEN [windows |-> acc2, hang |-> TRUE]
       ELSE OverlapWindows(total, chunkSize, overlap, next, acc2)

\* ChunkWithOverlap on one sentence: the text itself when it fits, else the
\* windows of chunkSize units that overlap by `overlap`.
ChunkWithOverlap(tokenizer, id, s, chunkSize, overlap) ==
    LET total == SentenceUnits(tokenizer, s)
        whole == FullSpan(tokenizer, id, s)
    IN IF total <= chunkSize
       THEN [chunks |-> << <<whole>> >>, hang |-> FALSE]
       ELSE LET r == OverlapWindows(total, chunkSize, overlap, 0, <<>>)
            IN [chunks |-> [k \in 1..Len(r.windows) |->
                              << [whole EXCEPT !.from = r.windows[k].from,
                                               !.to = r.windows[k].to] >>],
                hang |-> r.hang]

RECURSIVE AppendSubChunks(_, _, _)
\* The inner loop of SmartChunkBySentences over the windows of an oversize
\* sentence: the first one joins the current chunk when that is not empty.
AppendSubChunks(st, sub, i) ==
    IF i > Len(sub) THEN st
    ELSE IF i = 1 /\ st.cur # <<>>
         THEN AppendSubChunks([st EXCEPT !.chunks = Append(@, st.cur \o sub[i]),
                                         !.cur = <<>>, !.tokens = 0], sub, i + 1)
         ELSE AppendSubChunks([st EXCEPT !.chunks = Append(@, sub[i])], sub, i + 1)

RECURSIVE PackSentences(_, _, _, _)
\* The main loop of SmartChunkBySentences from sentence k of `sentences`.
PackSentences(tokenizer, sentences, maxTokens, st0) ==
    IF sentences = <<>> \/ st0.hang THEN st0
    ELSE LET id == Head(sentences).id
             s == Head(sentences).s
             sentenceTokens == SentenceUnits(tokenizer, s)
             st1 == IF st0.tokens + sentenceTokens > maxTokens /\ st0.cur # <<>>
                    THEN [st0 EXCEPT !.chunks = Append(@, st0.cur),
                                     !.cur = <<>>, !.tokens = 0]
                    ELSE st0
             st2 == IF sentenceTokens > maxTokens
                    THEN LET sub == ChunkWithOverlap(tokenizer, id, s, maxTokens, Overlap)
                         IN IF sub.hang THEN [st1 EXCEPT !.hang = TRUE]
                            ELSE AppendSubChunks(st1, sub.chunks, 1)
                    ELSE [st1 EXCEPT !.cur = @ \o <<FullSpan(tokenizer, id, s)>>,
                                     !.tokens = @ + sentenceTokens]
         IN PackSentences(tokenizer, Tail(sentences), maxTokens, st2)

\* SmartChunkBySentences: [chunks, hang]; hang means the call never returns.
SmartChunkBySentences(tokenizer, text, maxTokens) ==
    LET st == PackSentences(tokenizer, smartSentenceSplit(text), maxTokens,
                            [chunks |-> <<>>, cur |-> <<>>, tokens |-> 0, hang |-> FALSE])
    IN IF st.hang THEN [chunks |-> <<>>, hang |-> TRUE]
       ELSE [chunks |-> IF st.cur # <<>> THEN Append(st.chunks, st.cur) ELSE st.chunks,
             hang |-> FALSE]

\* ------------------------------------------------------------------------
\* LLM adaptors and answer extraction (part_009 = claude client,
\* openai_client.go, answer_extraction_service.go)
\* ------------------------------------------------------------------------

\* 0.1, the confidence an answer must exceed to be kept.
ConfThreshold == 1

\* 1.0 and 0.0 in tenths.
ConfOne == 10
ConfZero == 0

\* What the provider can send back for one call: the call fails (transport
\* error, cancelled context, non-200 status, malformed envelope), the
\* envelope holds no content block, the content is not the JSON object asked
\* for, or it is one, with whatever confidence the model chose to report.
ReplyKinds == {"api_error", "no_content", "bad_json", "json"}

ParseFallback == [Answer |-> "", Confidence |-> ConfZero, HasAnswer |-> FALSE]

\* ClampConfidence without its upper bound (mutant).
ClampConfidenceLowerOnly(c) == IF c < ConfZero THEN ConfZero ELSE c

\* The validation both adaptors apply to a parsed confidence.
ClampConfidence(c) ==
    LET low == IF c < ConfZero THEN ConfZero ELSE c
    IN IF low > ConfOne THEN ConfOne ELSE low

\* ClaudeClient.ExtractAnswer: [err, resp].
ClaudeExtractAnswer(reply) ==
    IF reply.kind = "api_error" THEN [err |-> TRUE, resp |-> ParseFallback]
    ELSE IF reply.kind = "no_content" THEN [err |-> TRUE, resp |-> ParseFallback]
    ELSE IF reply.kind = "bad_json" THEN [err |-> FALSE, resp |-> ParseFallback]
    ELSE [err |-> FALSE,
          resp |-> [Answer |-> reply.answer,
                    Confidence |-> ClampConfidence(reply.confidence),
                    HasAnswer |-> reply.has_answer]]

\* OpenAIClient.ExtractAnswer: [err, resp].
OpenAIExtractAnswer(reply) ==
    IF reply.kind = "api_error" THEN [err |-> TRUE, resp |-> ParseFallback]
    ELSE IF reply.kind = "no_content" THEN [err |-> TRUE, resp |-> ParseFallback]
    ELSE IF reply.kind = "bad_json" THEN [err |-> FALSE, resp |-> ParseFallback]
    ELSE [err |-> FALSE,
          resp |-> [Answer |-> reply.answer,
                    Confidence |-> ClampConfidence(reply.confidence),
                    HasAnswer |-> reply.has_answer]]

\* The LLMClient interface: dispatch on the concrete client.
LLMExtractAnswer(client, reply) ==
    IF client = "claude" THEN ClaudeExtractAnswer(reply) ELSE OpenAIExtractAnswer(reply)

\* AnswerExtractionService.ExtractAnswer: [err, result], result an
\* AnswerResult carrying the chunk's attribution.
ExtractAnswer(client, reply, chunk) ==
    LET r == LLMExtractAnswer(client, reply)
    IN [err |-> r.err,
        result |-> [Answer |-> r.resp.Answer,
                    Confidence |-> r.resp.Confidence,
                    HasAnswer |-> r.resp.HasAnswer,
                    ChunkID |-> chunk.ChunkID,
                    ContentType |-> chunk.ContentType]]

\* A variant of the test that looks at the confidence alone.
KeepAnswerByConfidence(result) == result.Confidence > ConfThreshold

\* The test on an extracted result that keeps it in the answer list.
KeepAnswer(result) == result.HasAnswer /\ result.Confidence > ConfThreshold

RECURSIVE AnswersLoop(_, _, _)
\* The loop of ExtractAnswersFromChunks over the candidates: a failed
\* extraction is skipped, a result is kept when KeepAnswer holds.
AnswersLoop(client, replies, candidates) ==
    IF candidates = <<>> THEN <<>>
    ELSE LET r == ExtractAnswer(client, Head(replies), Head(candidates))
             rest == AnswersLoop(client, Tail(replies), Tail(candidates))
         IN IF r.err THEN rest
            ELSE IF KeepAnswer(r.result) THEN <<r.result>> \o rest
            ELSE rest

\* A variant that gives up on the first failed extraction.
ExtractAnswersFailFast(client, replies, candidates) ==
    [err |-> \E i \in 1..Len(candidates) :
                ExtractAnswer(client, replies[i], candidates[i]).err,
     answers |-> AnswersLoop(client, replies, candidates)]

\* AnswerExtractionService.ExtractAnswersFromChunks; replies[i] is what the
\* provider sends back for candidate i.  The error it returns is always nil.
ExtractAnswersFromChunks(client, replies, candidates) ==
    [err |-> FALSE, answers |-> AnswersLoop(client, replies, candidates)]

\* One comparison of the inner loop of RankAnswersByConfidence.
RankSwap(ranked, i, j) ==
    IF ranked[i].Confidence < ranked[j].Confidence
    THEN [ranked EXCEPT ![i] = ranked[j], ![j] = ranked[i]]
    ELSE ranked

RECURSIVE RankLoop(_, _, _)
\* The nested loops of RankAnswersByConfidence, at (i, j), 1-based.
RankLoop(ranked, i, j) ==
    IF i > Len(ranked) - 1 THEN ranked
    ELSE IF j > Len(ranked) THEN RankLoop(ranked, i + 1, i + 2)
    ELSE RankLoop(RankSwap(ranked, i, j), i, j + 1)

\* A variant that returns the copy as it is, unsorted.
RankKeepOrder(answers) == answers

\* RankAnswersByConfidence: a sorted copy of answers.
RankAnswersByConfidence(answers) == RankLoop(answers, 1, 2)

\* ------------------------------------------------------------------------
\* Exact arithmetic for relevance scores (float64 in the source)
\* ------------------------------------------------------------------------

RECURSIVE GCD(_, _)
GCD(a, b) == IF b = 0 THEN a ELSE GCD(b, a % b)

Abs(x) == IF x < 0 THEN 0 - x ELSE x

\* The fraction num/den in lowest terms, den > 0.
Rat(num, den) ==
    LET g == GCD(Abs(num), den)
    IN IF g = 0 THEN [num |-> 0, den |-> 1] ELSE [num |-> num \div g, den |-> den \div g]

RatMul(a, b) == Rat(a.num * b.num, a.den * b.den)
RatGT(a, b) == a.num * b.den > b.num * a.den
Tenths(x) == Rat(x, 10)

\* ------------------------------------------------------------------------
\* Text extraction (text_extractor_service.go)
\* ------------------------------------------------------------------------

\* An uploaded file: its extension, what is wrong with its container, and
\* the text its pages / entries / body hold (after trimming).
\*   corrupt      the container cannot be opened (PDF reader, ZIP, DOCX)
\*   encrypted    a PDF that the empty password does not decrypt
\*   owner_lock   a PDF that is encrypted and opens with the empty password
FileFaults == {"none", "corrupt", "encrypted", "owner_lock"}

\* extractPDFText: [err, text].  No check that the text is not empty.
extractPDFText(file) ==
    IF file.fault = "corrupt" THEN [err |-> TRUE, text |-> <<>>]
    ELSE IF file.fault = "encrypted" THEN [err |-> TRUE, text |-> <<>>]
    ELSE [err |-> FALSE, text |-> file.text]

\* extractEPUBText: [err, text]; an empty result is an error.
extractEPUBText(file) ==
    IF file.fault = "corrupt" THEN [err |-> TRUE, text |-> <<>>]
    ELSE IF file.text = <<>> THEN [err |-> TRUE, text |-> <<>>]
    ELSE [err |-> FALSE, text |-> file.text]

\* extractDOCXText: [err, text]; an empty result is an error.
extractDOCXText(file) ==
    IF file.fault = "corrupt" THEN [err |-> TRUE, text |-> <<>>]
    ELSE IF file.text = <<>> THEN [err |-> TRUE, text |-> <<>>]
    ELSE [err |-> FALSE, text |-> file.text]

\* ExtractText: dispatch on the lowercased extension.
ExtractText(file) ==
    IF file.ext = ".pdf" THEN extractPDFText(file)
    ELSE IF file.ext = ".epub" THEN extractEPUBText(file)
    ELSE IF file.ext = ".docx" THEN extractDOCXText(file)
    ELSE [err |-> FALSE, text |-> file.text]

\* ------------------------------------------------------------------------
\* Embedding service (embedding_service.go)
\* ------------------------------------------------------------------------

RealModel == "text-embedding-ada-002"
MockModel == "mock-embedding-dev"

\* CreateEmbedding: [err, model].  Without a client the mock embedding,
\* which cannot fail; with one, the provider's answer (providerOk).
CreateEmbedding(hasClient, providerOk) ==
    IF ~hasClient THEN [err |-> FALSE, model |-> MockModel]
    ELSE IF providerOk THEN [err |-> FALSE, model |-> RealModel]
    ELSE [err |-> TRUE, model |-> RealModel]

\* ------------------------------------------------------------------------
\* Search service (search_service.go)
\* ------------------------------------------------------------------------

\* The queries of the model.  What a query is about enters only through
\* the cosine distance and the ts_rank the database computes for a chunk.
Queries == {"q1", "q2"}

\* e.embedding <=> query vector, in tenths: distinct for q1, equal for q2.
QueryDistance(q, c) ==
    IF q = "q1" THEN 2 + 3 * c.chunk_index + (c.content_item_id - 1) ELSE 4

\* ts_rank of the chunk for the query, in tenths; 0 when the chunk does
\* not match the query (to_tsvector @@ plainto_tsquery is false).
QueryRank(q, c) ==
    IF q = "q1" THEN (IF c.chunk_index = 0 THEN 0 ELSE 2 + c.content_item_id) ELSE 3

RECURSIVE SortedSeqs(_, _)
\* The enumerations of the rows S in non-decreasing key: ORDER BY leaves
\* the order of rows with equal keys to the database.
SortedSeqs(S, key) ==
    IF S = {} THEN {<<>>}
    ELSE UNION { {<<x>> \o t : t \in SortedSeqs(S \ {x}, key)} :
                 x \in {y \in S : \A z \in S : key[y] <= key[z]} }

\* LIMIT k on a result.
Limit(rows, k) == SubSeq(rows, 1, Min(k, Len(rows)))

\* The row a search scans into a SearchResult.
ToSearchResult(c, ci, relevance, source) ==
    [ID |-> c.id, ChunkText |-> c.chunk_text, ContentType |-> ci.content_type,
     Relevance |-> relevance, Source |-> source]

\* The content item a chunk row belongs to (JOIN content_items).
ContentItemOf(items, c) == CHOOSE ci \in items : ci.id = c.content_item_id

\* A variant of vectorSearch without the condition on embedding_model.
vectorSearchAnyModel(items, chunkRows, embRows, q, model, limit) ==
    LET rows == {e \in embRows :
                    \E c \in chunkRows : c.id = e.chunk_id
                                          /\ \E ci \in items : ci.id = c.content_item_id}
        chunkOf(e) == CHOOSE c \in chunkRows : c.id = e.chunk_id
        key == [e \in rows |-> QueryDistance(q, chunkOf(e))]
    IN { [k \in 1..Len(srt) |->
            ToSearchResult(chunkOf(srt[k]), ContentItemOf(items, chunkOf(srt[k])),
                           Tenths(10 - key[srt[k]]), "vector")] :
         srt \in {Limit(t, limit) : t \in SortedSeqs(rows, key)} }

\* vectorSearch: the possible results.  The rows of embeddings joined with
\* chunks and content_items whose model is the query embedding's, by
\* ascending distance.  There is no condition on content_items.user_id.
vectorSearch(items, chunkRows, embRows, q, model, limit) ==
    LET rows == {e \in embRows :
                    /\ e.embedding_model = model
                    /\ \E c \in chunkRows : c.id = e.chunk_id
                                            /\ \E ci \in items : ci.id = c.content_item_id}
        chunkOf(e) == CHOOSE c \in chunkRows : c.id = e.chunk_id
        key == [e \in rows |-> QueryDistance(q, chunkOf(e))]
    IN { [k \in 1..Len(srt) |->
            ToSearchResult(chunkOf(srt[k]), ContentItemOf(items, chunkOf(srt[k])),
                           Tenths(10 - key[srt[k]]), "vector")] :
         srt \in {Limit(t, limit) : t \in SortedSeqs(rows, key)} }

\* fullTextSearch: the possible results.  The rows of chunks joined with
\* content_items that match the query, by descending rank.  There is no
\* condition on content_items.user_id, and no join with embeddings.
fullTextSearch(items, chunkRows, q, limit) ==
    LET rows == {c \in chunkRows :
                    /\ QueryRank(q, c) > 0
                    /\ \E ci \in items : ci.id = c.content_item_id}
        key == [c \in rows |-> 0 - QueryRank(q, c)]
    IN { [k \in 1..Len(srt) |->
            ToSearchResult(srt[k], ContentItemOf(items, srt[k]),
                           Tenths(QueryRank(q, srt[k])), "fulltext")] :
         srt \in {Limit(t, limit) : t \in SortedSeqs(rows, key)} }

\* The words (strings.Fields) of one span of a chunk text: its word units,
\* or the terminator alone when the span holds nothing else.
SpanWords(sp) == IF sp.from > sp.n THEN 1 ELSE Min(sp.to, sp.n) - sp.from + 1

\* Whether the span ends with the terminator of its sentence.
SpanHasTerminator(sp) == IF sp.tk THEN sp.to = sp.n + 1 ELSE sp.to = sp.n

\* len() of one span of a chunk text, in bytes.
SpanChars(sp) ==
    IF sp.from > sp.n THEN 1
    ELSE LET w == SpanWords(sp)
         IN w * sp.wlen + (w - 1) + (IF SpanHasTerminator(sp) THEN 1 ELSE 0)

\* len(chunkText).
TextChars(text) ==
    IF text = <<>> THEN 0
    ELSE SeqSum([k \in 1..Len(text) |-> SpanChars(text[k])]) + (Len(text) - 1)

\* len(strings.Fields(chunkText)).
TextWords(text) == SeqSum([k \in 1..Len(text) |-> SpanWords(text[k])])

\* The words of chunkText that are no stop words and, trimmed of
\* punctuation, longer than 2.
TextMeaningfulWords(text) ==
    SeqSum([k \in 1..Len(text) |->
              IF text[k].from > text[k].n \/ text[k].stop \/ text[k].wlen <= 2
              THEN 0 ELSE SpanWords(text[k])])

getContentTypeWeight(contentType) ==
    IF contentType = "document" THEN Tenths(10)
    ELSE IF contentType = "audio" THEN Tenths(7)
    ELSE IF contentType = "video" THEN Tenths(6)
    ELSE IF contentType = "image" THEN Tenths(5)
    ELSE IF contentType = "webpage" THEN Tenths(8)
    ELSE IF contentType = "email" THEN Tenths(9)
    ELSE Tenths(8)

calculateInformationDensity(chunkText) ==
    LET textLength == TextChars(chunkText)
    IN IF textLength < 100 THEN Tenths(5)
       ELSE IF textLength < 300 THEN Tenths(7)
       ELSE IF textLength < 500 THEN Tenths(9)
       ELSE Tenths(10)

calculateContextRelevance(chunkText) ==
    LET words == TextWords(chunkText)
        meaningfulWords == TextMeaningfulWords(chunkText)
    IN IF words = 0 THEN Tenths(5)
       ELSE Rat(7 * words + 3 * meaningfulWords, 10 * words)

calculateSourceAuthority(contentType) ==
    IF contentType = "document" THEN Tenths(10)
    ELSE IF contentType = "webpage" THEN Tenths(7)
    ELSE IF contentType = "audio" THEN Tenths(8)
    ELSE IF contentType = "email" THEN Tenths(9)
    ELSE Tenths(8)

calculateTemporalRelevance(result) ==
    IF result.ContentType = "document" THEN Rat(100, 100)
    ELSE IF result.ContentType = "email" THEN Rat(95, 100)
    ELSE IF result.ContentType = "webpage" THEN Rat(90, 100)
    ELSE IF result.ContentType = "audio" THEN Rat(85, 100)
    ELSE IF result.ContentType = "video" THEN Rat(85, 100)
    ELSE Rat(95, 100)

calculateAdvancedRelevance(result) ==
    RatMul(RatMul(RatMul(RatMul(RatMul(result.Relevance,
        getContentTypeWeight(result.ContentType)),
        calculateInformationDensity(result.ChunkText)),
        calculateContextRelevance(result.ChunkText)),
        calculateSourceAuthority(result.ContentType)),
        calculateTemporalRelevance(result))

\* A variant of boostDualSourceScore that leaves the score as it is.
KeepVectorScore(vectorScore, fulltextScore) == vectorScore

boostDualSourceScore(vectorScore, fulltextScore) == RatMul(vectorScore, Rat(12, 10))

\* The position of the first result with the given id, 0 if there is none.
IndexOfID(results, id) ==
    IF \E i \in 1..Len(results) : results[i].ID = id
    THEN CHOOSE i \in 1..Len(results) :
            results[i].ID = id /\ \A j \in 1..(i - 1) : results[j].ID # id
    ELSE 0

RECURSIVE CollectVector(_, _)
\* The first loop of combineResults: the vector results not seen before,
\* each with its advanced relevance.
CollectVector(vectorResults, all) ==
    IF vectorResults = <<>> THEN all
    ELSE LET result == Head(vectorResults)
         IN IF IndexOfID(all, result.ID) = 0
            THEN CollectVector(Tail(vectorResults),
                    Append(all, [result EXCEPT !.Relevance = calculateAdvancedRelevance(result)]))
            ELSE CollectVector(Tail(vectorResults), all)

RECURSIVE CollectText(_, _)
\* The second loop of combineResults: a text result not seen before is
\* appended with its advanced relevance; one seen before boosts the score
\* of the result that is already there.
CollectText(textResults, all) ==
    IF textResults = <<>> THEN all
    ELSE LET result == Head(textResults)
             i == IndexOfID(all, result.ID)
         IN IF i = 0
            THEN CollectText(Tail(textResults),
                    Append(all, [result EXCEPT !.Relevance = calculateAdvancedRelevance(result)]))
            ELSE CollectText(Tail(textResults),
                    [all EXCEPT ![i].Relevance =
                        boostDualSourceScore(all[i].Relevance, result.Relevance)])

RECURSIVE InsertByRelevance(_, _)
\* One insertion of the insertion sort sort.Slice runs on slices of fewer
\* than 12 elements: x moves left past the elements of smaller relevance.
InsertByRelevance(sorted, x) ==
    IF sorted = <<>> THEN <<x>>
    ELSE LET last == sorted[Len(sorted)]
         IN IF RatGT(x.Relevance, last.Relevance)
            THEN Append(InsertByRelevance(SubSeq(sorted, 1, Len(sorted) - 1), x), last)
            ELSE Append(sorted, x)

RECURSIVE SortByRelevance(_, _)
\* sort.Slice(allResults, Relevance descending), for fewer than 12 results.
SortByRelevance(results, sorted) ==
    IF results = <<>> THEN sorted
    ELSE SortByRelevance(Tail(results), InsertByRelevance(sorted, Head(results)))

\* A variant of combineResults that truncates without sorting.
combineUnsorted(vectorResults, textResults, limit) ==
    LET allResults == CollectText(textResults, CollectVector(vectorResults, <<>>))
    IN IF Len(allResults) > limit THEN SubSeq(allResults, 1, limit) ELSE allResults

\* combineResults: fuse, sort by fused relevance, keep the top limit.
combineResults(vectorResults, textResults, limit) ==
    LET allResults == CollectText(textResults, CollectVector(vectorResults, <<>>))
        sorted == SortByRelevance(allResults, <<>>)
    IN IF Len(sorted) > limit THEN SubSeq(sorted, 1, limit) ELSE sorted

\* The ChunkWithMetadata of a search result.
ToCandidate(result) == [ChunkID |-> result.ID, ContentType |-> result.ContentType]

RECURSIVE AppendCandidates(_, _, _)
\* One loop of prepareCandidateChunks: the results not seen before, while
\* there are fewer than limit candidates.
AppendCandidates(results, cands, limit) ==
    IF results = <<>> THEN cands
    ELSE LET result == Head(results)
             seen == \E i \in 1..Len(cands) : cands[i].ChunkID = result.ID
         IN IF ~seen /\ Len(cands) < limit
            THEN AppendCandidates(Tail(results), Append(cands, ToCandidate(result)), limit)
            ELSE AppendCandidates(Tail(results), cands, limit)

\* prepareCandidateChunks: vector results first, then text results.
prepareCandidateChunks(vectorResults, textResults, limit) ==
    AppendCandidates(textResults, AppendCandidates(vectorResults, <<>>, limit), limit)

\* The part of QASearch after retrieval: extract, rank, truncate.
QAAnswers(client, replies, candidateChunks, limit) ==
    LET x == ExtractAnswersFromChunks(client, replies, candidateChunks)
        rankedAnswers == RankAnswersByConfidence(x.answers)
        limited == IF Len(rankedAnswers) > limit
                   THEN SubSeq(rankedAnswers, 1, limit) ELSE rankedAnswers
    IN IF x.err THEN [err |-> TRUE]
       ELSE [err |-> FALSE, Answers |-> limited, Strategy |-> "qa-hybrid",
             Total |-> Len(limited)]

\* ------------------------------------------------------------------------
\* Values of the variables a specification does not use
\* ------------------------------------------------------------------------

NoResp == [op |-> "none"]

ConfigIdle == tokenizerLoaded = FALSE /\ apiKeySet = FALSE /\ claudeKeySet = FALSE
StoreIdle ==
    /\ nextId = 1 /\ contentItems = {} /\ chunks = {} /\ embeddings = {}
    /\ tasks = <<>> /\ resp = NoResp
ChunkIdle == ckText = <<>> /\ ckMaxTokens = 0 /\ ckOut = NotRun
RankIdle == rkIn = <<>> /\ rkOut = NotRun
AdaptorIdle == adClient = "claude" /\ adReply = [kind |-> "api_error"] /\ adOut = NotRun
QAIdle ==
    qaIn = [candidates |-> <<>>, replies |-> <<>>, limit |-> 0, cancelAt |-> 0] /\ qaOut = NotRun
SchemaIdle == dbUsers = {} /\ dbSchema = "modern"
FusionIdle == fuIn = [vector |-> <<>>, text |-> <<>>, limit |-> 0] /\ fuOut = NotRun
VectorIdle == vsOut = NotRun
HTMLIdle == htIn = <<>> /\ htOut = NotRun
ChatIdle == chConvs = {} /\ chMessages = <<>> /\ chOut = NotRun
LogIdle == lgSteps = <<>> /\ lgHandler = [pc |-> "idle"] /\ lgTask = [pc |-> "idle"]
MoreIdle == HTMLIdle /\ ChatIdle /\ LogIdle
HarnessIdle == SchemaIdle /\ FusionIdle /\ VectorIdle /\ MoreIdle

\* ------------------------------------------------------------------------
\* Spec: uploads, background ingestion and the read handlers over one store
\* ------------------------------------------------------------------------

\* The number of uploads that reach the pipeline.
MaxDocs == 1

Users == {"u1", "u2"}

\* A sentence of 300 words: two of them do not fit one chunk of 400 tokens.
BigSentence == [n |-> 300, wlen |-> 5, digit |-> FALSE, stop |-> FALSE]

\* A fragment of 8 bytes, which smartSentenceSplit drops.
Fragment == [n |-> 2, wlen |-> 3, digit |-> FALSE, stop |-> FALSE]

\* The texts uploaded files hold: none, one that chunks to nothing, one
\* chunk, two chunks.
UploadTexts == {<<>>, <<Fragment>>, <<BigSentence>>, <<BigSentence, BigSentence>>}

\* The uploaded files: every kind with every text, and the containers that
\* cannot be opened or decrypted.
UploadFiles ==
    {[ext |-> e, fault |-> "none", text |-> t] :
        e \in {".txt", ".pdf", ".epub", ".docx", ".html"}, t \in UploadTexts}
    \cup {[ext |-> ".pdf", fault |-> "owner_lock", text |-> t] : t \in UploadTexts}
    \cup {[ext |-> e, fault |-> "corrupt", text |-> <<>>] : e \in {".pdf", ".epub", ".docx"}}
    \cup {[ext |-> ".pdf", fault |-> "encrypted", text |-> <<BigSentence>>]}

\* The limits a search request carries; 0 is an absent limit.
RequestLimits == {0, 1, 2}

\* What the provider replies to the calls of one QA search (confidences in
\* tenths): failures, and objects that report no answer, a confidence of
\* 0.1, of 0.5 and of 1.5.
QAReplies ==
    { [kind |-> "api_error"], [kind |-> "bad_json"],
      [kind |-> "json", answer |-> "", confidence |-> 5, has_answer |-> FALSE],
      [kind |-> "json", answer |-> "a", confidence |-> 1, has_answer |-> TRUE],
      [kind |-> "json", answer |-> "a", confidence |-> 5, has_answer |-> TRUE],
      [kind |-> "json", answer |-> "a", confidence |-> 15, has_answer |-> TRUE] }

Init ==
    /\ tokenizerLoaded \in BOOLEAN
    /\ apiKeySet \in BOOLEAN
    /\ claudeKeySet \in BOOLEAN
    /\ StoreIdle /\ ChunkIdle /\ RankIdle /\ AdaptorIdle /\ QAIdle /\ HarnessIdle

\* The background task ProcessDocumentWithLogging starts with `go`.
NewTask(text) ==
    [pc |-> "chunking", text |-> text, chunkTexts |-> <<>>, i |-> 0,
     successfulChunks |-> 0, successfulEmbeddings |-> 0, complete |-> FALSE]

\* A variant that goes on after a failed extraction.
ProcessDocumentIgnoringExtractError(userID, file, io, id) ==
    LET x == ExtractText(file)
        contentItem == [id |-> id, user_id |-> userID, content_type |-> "document"]
    IN IF io = "read_fail" \/ io = "db_fail"
       THEN [err |-> TRUE, item |-> contentItem, text |-> <<>>]
       ELSE [err |-> FALSE, item |-> contentItem, text |-> x.text]

\* ProcessDocumentWithLogging up to its return: [err, item, text].  io is
\* what the environment does to the call: nothing, fail io.ReadAll, or fail
\* the insert into content_items.
ProcessDocumentWithLogging(userID, file, io, id) ==
    LET x == ExtractText(file)
        contentItem == [id |-> id, user_id |-> userID, content_type |-> "document"]
    IN IF io = "read_fail" THEN [err |-> TRUE, item |-> contentItem, text |-> <<>>]
       ELSE IF x.err THEN [err |-> TRUE, item |-> contentItem, text |-> <<>>]
       ELSE IF io = "db_fail" THEN [err |-> TRUE, item |-> contentItem, text |-> <<>>]
       ELSE [err |-> FALSE, item |-> contentItem, text |-> x.text]

\* uploadDocumentHandler (and testPipelineHandler): ProcessDocument, then
\* 500 on an error and 201 with the content id otherwise.
Upload(u, file, io) ==
    /\ resp = NoResp
    /\ nextId <= MaxDocs
    /\ LET r == ProcessDocumentWithLogging(u, file, io, nextId)
       IN IF r.err
          THEN /\ resp' = [op |-> "upload", user |-> u, file |-> file, status |-> 500,
                           content_id |-> 0]
               /\ UNCHANGED <<nextId, contentItems, tasks>>
          ELSE /\ contentItems' = contentItems \cup {r.item}
               /\ tasks' = tasks @@ (nextId :> NewTask(r.text))
               /\ nextId' = nextId + 1
               /\ resp' = [op |-> "upload", user |-> u, file |-> file, status |-> 201,
                           content_id |-> r.item.id]
    /\ UNCHANGED <<chunks, embeddings, configVars, chunkVars, rankVars, adaptorVars, qaVars, harnessVars>>

\* A variant that leaves the loop instead of continuing with the next chunk.
LeaveLoop(task) == [task EXCEPT !.pc = "complete"]

\* The task after chunk i: the next chunk, or the final summary.
NextChunkOf(task) ==
    [task EXCEPT !.i = task.i + 1,
                 !.pc = IF task.i + 1 < Len(task.chunkTexts) THEN "save_chunk" ELSE "complete"]

\* processTextAsyncWithLogging, step 1: chunk the text.
TaskChunk(id) ==
    /\ id \in DOMAIN tasks /\ tasks[id].pc = "chunking"
    /\ LET r == SmartChunkBySentences(tokenizerLoaded, tasks[id].text, PipelineMaxTokens)
       IN tasks' = [tasks EXCEPT ![id] =
                      IF r.hang THEN [@ EXCEPT !.pc = "hung"]
                      ELSE [@ EXCEPT !.chunkTexts = r.chunks,
                                     !.pc = IF r.chunks = <<>> THEN "complete"
                                            ELSE "save_chunk"]]
    /\ resp' = NoResp
    /\ UNCHANGED <<nextId, contentItems, chunks, embeddings,
                   configVars, chunkVars, rankVars, adaptorVars, qaVars, harnessVars>>

\* The chunk row the task builds for chunk i.
ChunkRow(id, i, chunkText) ==
    [id |-> <<id, i>>, content_item_id |-> id, chunk_text |-> chunkText,
     chunk_index |-> i, token_count |-> CountTokens(tokenizerLoaded, chunkText)]

\* processTextAsyncWithLogging, loop body, first half: save chunk i.  When
\* the insert fails the loop continues with the next index.
TaskSaveChunk(id, dbOk) ==
    /\ id \in DOMAIN tasks /\ tasks[id].pc = "save_chunk"
    /\ LET task == tasks[id]
           row == ChunkRow(id, task.i, task.chunkTexts[task.i + 1])
       IN IF dbOk /\ \E ci \in contentItems : ci.id = id
          THEN /\ chunks' = chunks \cup {row}
               /\ tasks' = [tasks EXCEPT ![id] =
                    [@ EXCEPT !.pc = "embedding", !.successfulChunks = @ + 1]]
          ELSE /\ chunks' = chunks
               /\ tasks' = [tasks EXCEPT ![id] = NextChunkOf(task)]
    /\ resp' = NoResp
    /\ UNCHANGED <<nextId, contentItems, embeddings,
                   configVars, chunkVars, rankVars, adaptorVars, qaVars, harnessVars>>

\* processTextAsyncWithLogging, loop body, second half: create and save the
\* embedding of chunk i.  outcome: "ok", the provider fails, the insert fails.
TaskEmbed(id, outcome) ==
    /\ id \in DOMAIN tasks /\ tasks[id].pc = "embedding"
    /\ LET task == tasks[id]
           e == CreateEmbedding(apiKeySet, outcome # "create_fail")
       IN IF ~e.err /\ outcome # "save_fail"
                    /\ \E c \in chunks : c.id = <<id, task.i>>
          THEN /\ embeddings' = embeddings \cup
                    {[chunk_id |-> <<id, task.i>>, embedding_model |-> e.model,
                      embedding_version |-> 1]}
               /\ tasks' = [tasks EXCEPT ![id] =
                    NextChunkOf([task EXCEPT !.successfulEmbeddings = @ + 1])]
          ELSE /\ embeddings' = embeddings
               /\ tasks' = [tasks EXCEPT ![id] = NextChunkOf(task)]
    /\ resp' = NoResp
    /\ UNCHANGED <<nextId, contentItems, chunks,
                   configVars, chunkVars, rankVars, adaptorVars, qaVars, harnessVars>>

\* processTextAsyncWithLogging, final summary: the "processing_complete"
\* success step, logged whatever the counts are.
TaskComplete(id) ==
    /\ id \in DOMAIN tasks /\ tasks[id].pc = "complete"
    /\ tasks' = [tasks EXCEPT ![id] = [@ EXCEPT !.pc = "done", !.complete = TRUE]]
    /\ resp' = NoResp
    /\ UNCHANGED <<nextId, contentItems, chunks, embeddings,
                   configVars, chunkVars, rankVars, adaptorVars, qaVars, harnessVars>>

\* The limit a handler searches with: its default when the request has none.
EffectiveLimit(limit, default) == IF limit = 0 THEN default ELSE limit

\* searchHandler: Search(query, limit), limit 10 by default.
\* io: "ok", the query embedding fails, a query on the database fails.
SearchRequest(u, q, limit, io) ==
    /\ resp = NoResp
    /\ LET k == EffectiveLimit(limit, 10)
           e == CreateEmbedding(apiKeySet, io # "embed_fail")
       IN IF e.err \/ io = "db_fail"
          THEN resp' = [op |-> "search", user |-> u, status |-> 500]
          ELSE \E vec \in vectorSearch(contentItems, chunks, embeddings, q, e.model, k),
                  txt \in fullTextSearch(contentItems, chunks, q, k) :
                  resp' = [op |-> "search", user |-> u, status |-> 200,
                           results |-> combineResults(vec, txt, k)]
    /\ UNCHANGED <<nextId, contentItems, chunks, embeddings, tasks,
                   configVars, chunkVars, rankVars, adaptorVars, qaVars, harnessVars>>

\* qaSearchHandler: QASearch(ctx, query, limit), limit 5 by default, through
\* the Claude client.  replies[i] is the provider's reply for candidate i.
QASearchRequest(u, q, limit, io) ==
    /\ resp = NoResp
    /\ LET k == EffectiveLimit(limit, 5)
           candidateLimit == k * 3
           e == CreateEmbedding(apiKeySet, io # "embed_fail")
       IN IF ~claudeKeySet
          THEN resp' = [op |-> "qa", user |-> u, io |-> io, status |-> 503]
          ELSE IF e.err \/ io = "db_fail"
          THEN resp' = [op |-> "qa", user |-> u, io |-> io, status |-> 500]
          ELSE \E vec \in vectorSearch(contentItems, chunks, embeddings, q, e.model,
                                       candidateLimit),
                  txt \in fullTextSearch(contentItems, chunks, q, candidateLimit) :
                  LET candidateChunks == prepareCandidateChunks(vec, txt, candidateLimit)
                  IN \E replies \in [1..Len(candidateChunks) -> QAReplies] :
                       LET r == QAAnswers("claude", replies, candidateChunks, k)
                       IN resp' = IF r.err
                                  THEN [op |-> "qa", user |-> u, io |-> io, status |-> 500,
                                        candidates |-> candidateChunks,
                                        replies |-> replies]
                                  ELSE [op |-> "qa", user |-> u, io |-> io, status |-> 200,
                                        limit |-> limit,
                                        candidates |-> candidateChunks,
                                        replies |-> replies,
                                        answers |-> r.Answers, total |-> r.Total,
                                        strategy |-> r.Strategy]
    /\ UNCHANGED <<nextId, contentItems, chunks, embeddings, tasks,
                   configVars, chunkVars, rankVars, adaptorVars, qaVars, harnessVars>>

\* A variant of the read without ORDER BY: the rows in any order.
ChunksAnyOrder(chunkRows, itemID) ==
    LET rows == {c \in chunkRows : c.content_item_id = itemID}
    IN SortedSeqs(rows, [c \in rows |-> 0])

\* The chunks of a content item ordered by chunk_index (the possible
\* orders, should two rows share an index).
ChunksInOrder(chunkRows, itemID) ==
    LET rows == {c \in chunkRows : c.content_item_id = itemID}
    IN SortedSeqs(rows, [c \in rows |-> c.chunk_index])

\* getContentItemHandler: the item with the given id, whoever owns it, and
\* its chunks.
GetContentItem(u, itemID, dbOk) ==
    /\ resp = NoResp
    /\ IF ~\E ci \in contentItems : ci.id = itemID
       THEN resp' = [op |-> "get", user |-> u, item_id |-> itemID, status |-> 404]
       ELSE IF ~dbOk
       THEN resp' = [op |-> "get", user |-> u, item_id |-> itemID, status |-> 500]
       ELSE \E ordered \in ChunksInOrder(chunks, itemID) :
               resp' = [op |-> "get", user |-> u, item_id |-> itemID, status |-> 200,
                        item |-> CHOOSE ci \in contentItems : ci.id = itemID,
                        chunks |-> ordered]
    /\ UNCHANGED <<nextId, contentItems, chunks, embeddings, tasks,
                   configVars, chunkVars, rankVars, adaptorVars, qaVars, harnessVars>>

\* The client reads the response; it sends its next request after that.
ReceiveResponse ==
    /\ resp # NoResp
    /\ resp' = NoResp
    /\ UNCHANGED <<nextId, contentItems, chunks, embeddings, tasks,
                   configVars, chunkVars, rankVars, adaptorVars, qaVars, harnessVars>>

Next ==
    \/ ReceiveResponse
    \/ \E u \in Users, file \in UploadFiles, io \in {"ok", "read_fail", "db_fail"} :
          Upload(u, file, io)
    \/ \E id \in 1..MaxDocs : TaskChunk(id)
    \/ \E id \in 1..MaxDocs, dbOk \in BOOLEAN : TaskSaveChunk(id, dbOk)
    \/ \E id \in 1..MaxDocs, outcome \in {"ok", "create_fail", "save_fail"} :
          TaskEmbed(id, outcome)
    \/ \E id \in 1..MaxDocs : TaskComplete(id)
    \/ \E u \in Users, q \in Queries, limit \in RequestLimits,
          io \in {"ok", "embed_fail", "db_fail"} : SearchRequest(u, q, limit, io)
    \/ \E u \in Users, q \in Queries, limit \in RequestLimits,
          io \in {"ok", "embed_fail", "db_fail"} : QASearchRequest(u, q, limit, io)
    \/ \E u \in Users, itemID \in 1..MaxDocs, dbOk \in BOOLEAN :
          GetContentItem(u, itemID, dbOk)

Spec == Init /\ [][Next]_vars

\* ------------------------------------------------------------------------
\* SpecChunk: SmartChunkBySentences on every text and limit of the bounds
\* ------------------------------------------------------------------------

\* The longest text, in sentences.
MaxSentences == 3

\* The sentences texts are made of: a fragment of 8 bytes, sentences of
\* three and four words, one opening with a number, and a sentence longer
\* than Overlap and than every limit below.
ChunkSentences ==
    { [n |-> 2, wlen |-> 3, digit |-> FALSE, stop |-> FALSE],
      [n |-> 3, wlen |-> 3, digit |-> FALSE, stop |-> FALSE],
      [n |-> 3, wlen |-> 3, digit |-> TRUE, stop |-> FALSE],
      [n |-> 4, wlen |-> 3, digit |-> FALSE, stop |-> TRUE],
      [n |-> 55, wlen |-> 3, digit |-> FALSE, stop |-> FALSE] }

\* The maxTokens arguments: below, at and above Overlap.
ChunkLimits == {3, 4, 7, 8, 50, 51, 53}

InitChunk ==
    /\ tokenizerLoaded \in BOOLEAN
    /\ apiKeySet = FALSE /\ claudeKeySet = FALSE
    /\ ckText \in SeqsUpTo(ChunkSentences, MaxSentences)
    /\ ckMaxTokens \in ChunkLimits
    /\ ckOut = NotRun
    /\ StoreIdle /\ RankIdle /\ AdaptorIdle /\ QAIdle /\ HarnessIdle

\* chunks := c.SmartChunkBySentences(text, maxTokens)
RunSmartChunk ==
    /\ ~ckOut.done
    /\ ckOut' = Returned(SmartChunkBySentences(tokenizerLoaded, ckText, ckMaxTokens))
    /\ UNCHANGED <<ckText, ckMaxTokens, configVars, storeVars, rankVars, adaptorVars, qaVars, harnessVars>>

NextChunk == RunSmartChunk

SpecChunk == InitChunk /\ [][NextChunk]_vars

\* ------------------------------------------------------------------------
\* SpecRank: RankAnswersByConfidence on every answer list of the bounds
\* ------------------------------------------------------------------------

\* The longest answer list.
MaxAnswers == 4

\* The confidences of the answers (all above ConfThreshold).
RankConfidences == {2, 5, 9}

\* The answer list with the given confidences; ChunkID is the position of
\* the answer in the list.
AnswersWith(confs) ==
    [i \in 1..Len(confs) |->
        [Answer |-> "a", Confidence |-> confs[i], HasAnswer |-> TRUE,
         ChunkID |-> i, ContentType |-> "document"]]

InitRank ==
    /\ \E confs \in SeqsUpTo(RankConfidences, MaxAnswers) : rkIn = AnswersWith(confs)
    /\ rkOut = NotRun
    /\ ConfigIdle /\ StoreIdle /\ ChunkIdle /\ AdaptorIdle /\ QAIdle /\ HarnessIdle

\* rankedAnswers := RankAnswersByConfidence(answers)
RunRank ==
    /\ ~rkOut.done
    /\ rkOut' = Returned(RankAnswersByConfidence(rkIn))
    /\ UNCHANGED <<rkIn, configVars, storeVars, chunkVars, adaptorVars, qaVars, harnessVars>>

NextRank == RunRank

SpecRank == InitRank /\ [][NextRank]_vars

\* ------------------------------------------------------------------------
\* SpecAdaptor: one answer extraction through either LLM adaptor
\* ------------------------------------------------------------------------

\* How far outside [0, 1] a reported confidence lies at most, in tenths.
MaxExcess == 5

\* Every reply of the provider within the bounds.
AdaptorReplies ==
    {[kind |-> k] : k \in ReplyKinds \ {"json"}}
    \cup {[kind |-> "json", answer |-> a, confidence |-> c, has_answer |-> h] :
            a \in {"", "a"}, c \in (ConfZero - MaxExcess)..(ConfOne + MaxExcess),
            h \in BOOLEAN}

\* The candidate chunk the extraction is about.
AdaptorChunk == [ChunkID |-> 1, ContentType |-> "document"]

InitAdaptor ==
    /\ adClient \in {"claude", "openai"}
    /\ adReply \in AdaptorReplies
    /\ adOut = NotRun
    /\ ConfigIdle /\ StoreIdle /\ ChunkIdle /\ RankIdle /\ QAIdle /\ HarnessIdle

\* result, err := s.ExtractAnswer(ctx, query, chunk.Text, chunk.Metadata)
RunExtractAnswer ==
    /\ ~adOut.done
    /\ adOut' = Returned(ExtractAnswer(adClient, adReply, AdaptorChunk))
    /\ UNCHANGED <<adClient, adReply, configVars, storeVars, chunkVars, rankVars, qaVars, harnessVars>>

NextAdaptor == RunExtractAnswer

SpecAdaptor == InitAdaptor /\ [][NextAdaptor]_vars

\* ------------------------------------------------------------------------
\* SpecQA: the answer stage of QASearch on every candidate list of the bounds
\* ------------------------------------------------------------------------

\* The longest candidate list.
MaxCandidates == 6

\* The candidate chunks prepareCandidateChunks hands over: n distinct chunks.
CandidatesOf(n) ==
    [i \in 1..n |-> [ChunkID |-> <<1, i - 1>>, ContentType |-> "document"]]

\* The calls a context cancelled before call cancelAt lets through (0: never
\* cancelled): http.NewRequestWithContext binds the request to ctx, so the
\* call at cancelAt and every later one return the context's error.
CancelConsistent(replies, cancelAt) ==
    cancelAt > 0 => \A j \in cancelAt..Len(replies) : replies[j] = [kind |-> "api_error"]

\* A request's limit, at most 3 * limit candidates (5 stands for no limit),
\* one reply of the provider per candidate, and the call before which the
\* request's context was cancelled, if it was.
InitQA ==
    /\ \E limit \in RequestLimits :
         \E n \in 0..Min(MaxCandidates, 3 * EffectiveLimit(limit, 5)) :
           \E replies \in [1..n -> QAReplies], cancelAt \in 0..n :
              /\ CancelConsistent(replies, cancelAt)
              /\ qaIn = [candidates |-> CandidatesOf(n), replies |-> replies,
                         limit |-> limit, cancelAt |-> cancelAt]
    /\ qaOut = NotRun
    /\ ConfigIdle /\ StoreIdle /\ ChunkIdle /\ RankIdle /\ AdaptorIdle /\ HarnessIdle

\* qaSearchHandler's default limit, then QASearch from the extraction on.
RunQA ==
    /\ ~qaOut.done
    /\ qaOut' = Returned(QAAnswers("claude", qaIn.replies, qaIn.candidates,
                                   EffectiveLimit(qaIn.limit, 5)))
    /\ UNCHANGED <<qaIn, configVars, storeVars, chunkVars, rankVars, adaptorVars, harnessVars>>

NextQA == RunQA

SpecQA == InitQA /\ [][NextQA]_vars

\* ------------------------------------------------------------------------
\* Claims about the chunker, the ranking and the adaptors
\* ------------------------------------------------------------------------

\* The elements of a sequence.
Range(s) == {s[i] : i \in 1..Len(s)}

\* C3: RankAnswersByConfidence returns a permutation of its input sorted by
\* confidence in non-increasing order, and the sort is stable: answers of
\* equal confidence keep the relative order they had in the input.  (The
\* input position of an answer is its ChunkID.)
RankIsSortedPermutation ==
    /\ Len(rkOut.out) = Len(rkIn)
    /\ \A i \in 1..Len(rkIn) : \E j \in 1..Len(rkOut.out) : rkOut.out[j] = rkIn[i]
    /\ \A i, j \in 1..Len(rkOut.out) : i < j => rkOut.out[i].Confidence >= rkOut.out[j].Confidence
RankIsStable ==
    \A i, j \in 1..Len(rkOut.out) :
        (i < j /\ rkOut.out[i].Confidence = rkOut.out[j].Confidence)
            => rkOut.out[i].ChunkID < rkOut.out[j].ChunkID
C3_StableSort == rkOut.done => (RankIsSortedPermutation /\ RankIsStable)

\* C5: every AnswerResult returned to the caller has confidence in [0, 1],
\* whatever confidence the LLM reported, for both adaptors.
C5_ConfidenceInUnitInterval ==
    (adOut.done /\ ~adOut.out.err)
        => (adOut.out.result.Confidence >= ConfZero /\ adOut.out.result.Confidence <= ConfOne)

\* C5 witness: the OpenAI-style adaptor has returned a result for a reply
\* that reported a confidence above 1.
C5_Witness ==
    /\ adOut.done /\ ~adOut.out.err
    /\ adClient = "openai" /\ adReply.kind = "json" /\ adReply.confidence > ConfOne

\* A chunk that is one window of a sentence longer than the limit.
FromOversizeSentence(chunk) ==
    /\ Len(chunk) = 1
    /\ SentenceUnits(tokenizerLoaded, [n |-> chunk[1].n]) > ckMaxTokens

\* C10: each chunk produced by SmartChunkBySentences has a token count (by
\* CountTokens on the chunk text) of at most max_tokens, except the chunks
\* made from a single sentence longer than max_tokens, whose token count is
\* at most max_tokens + overlap.
C10_TokenBudget ==
    (ckOut.done /\ ~ckOut.out.hang) =>
        \A k \in 1..Len(ckOut.out.chunks) :
            LET chunk == ckOut.out.chunks[k]
                count == CountTokens(tokenizerLoaded, chunk)
            IN \/ count <= ckMaxTokens
               \/ FromOversizeSentence(chunk) /\ count <= ckMaxTokens + Overlap

\* ------------------------------------------------------------------------
\* Claims about QASearch's answer stage (SpecQA)
\* ------------------------------------------------------------------------

\* The reply reports an answer with a confidence above the threshold.
ReplySurvives(reply) ==
    /\ reply.kind = "json" /\ reply.has_answer
    /\ Min(reply.confidence, ConfOne) > ConfThreshold

\* The reply reports has_answer == false or a confidence of at most 0.1.
ReplyReportsNoAnswer(reply) ==
    reply.kind = "json" /\ (~reply.has_answer \/ reply.confidence <= ConfThreshold)

\* The positions in the answer list of the candidate with the given chunk.
PositionsOf(answers, chunkID) == {j \in 1..Len(answers) : answers[j].ChunkID = chunkID}

\* C2: every answer QASearch returns has has_answer == true and confidence
\* > 0.1, and a candidate whose extraction reports has_answer == false or
\* confidence <= 0.1 never appears in the returned list.
C2_OnlyConfidentAnswers ==
    (qaOut.done /\ ~qaOut.out.err) =>
        LET answers == qaOut.out.Answers
        IN /\ \A j \in 1..Len(answers) :
                answers[j].HasAnswer /\ answers[j].Confidence > ConfThreshold
           /\ \A i \in 1..Len(qaIn.candidates) :
                ReplyReportsNoAnswer(qaIn.replies[i])
                    => PositionsOf(answers, qaIn.candidates[i].ChunkID) = {}

\* An answer is returned while one candidate reported has_answer == false
\* with a high confidence and another an answer with confidence 0.1.
C2_Witness ==
    /\ qaOut.done /\ ~qaOut.out.err
    /\ Len(qaOut.out.Answers) >= 1
    /\ \E i \in 1..Len(qaIn.candidates) :
         /\ qaIn.replies[i].kind = "json" /\ ~qaIn.replies[i].has_answer
         /\ qaIn.replies[i].confidence > ConfThreshold
    /\ \E i \in 1..Len(qaIn.candidates) :
         /\ qaIn.replies[i].kind = "json" /\ qaIn.replies[i].has_answer
         /\ qaIn.replies[i].confidence = ConfThreshold

\* C4: for every limit k >= 1 (k = 5 when the request gives limit 0)
\* QASearch returns at most k answers, they are the k highest-confidence
\* answers that survived filtering, and Total is the number returned.
C4_TopKAnswers ==
    qaOut.done =>
        LET k == IF qaIn.limit = 0 THEN 5 ELSE qaIn.limit
            n == Len(qaIn.candidates)
            survivors == {i \in 1..n : ReplySurvives(qaIn.replies[i])}
            conf(i) == Min(qaIn.replies[i].confidence, ConfOne)
            answers == qaOut.out.Answers
            returned == {i \in survivors :
                           PositionsOf(answers, qaIn.candidates[i].ChunkID) # {}}
        IN /\ ~qaOut.out.err
           /\ Len(answers) <= k
           /\ Len(answers) = Min(k, Cardinality(survivors))
           /\ qaOut.out.Total = Len(answers)
           /\ \A j \in 1..Len(answers) :
                \E i \in survivors :
                   /\ answers[j].ChunkID = qaIn.candidates[i].ChunkID
                   /\ answers[j].Confidence = conf(i)
           /\ Cardinality(returned) = Len(answers)
           /\ \A i \in returned, o \in survivors \ returned : conf(i) >= conf(o)

\* A request without limit, six surviving candidates of two confidences:
\* five answers come back and the one left out has the lower confidence.
C4_Witness ==
    /\ qaOut.done /\ ~qaOut.out.err
    /\ qaIn.limit = 0
    /\ Len(qaIn.candidates) = 6
    /\ \A i \in 1..6 : ReplySurvives(qaIn.replies[i])
    /\ qaIn.replies[1].confidence < qaIn.replies[6].confidence
    /\ Len(qaOut.out.Answers) = 5
    /\ PositionsOf(qaOut.out.Answers, qaIn.candidates[6].ChunkID) # {}

\* ------------------------------------------------------------------------
\* Claims about the store, ingestion and the read handlers (Spec)
\* ------------------------------------------------------------------------

\* The user that owns the content item of a chunk.
OwnerOfChunk(chunkID) ==
    LET c == CHOOSE row \in chunks : row.id = chunkID
        ci == CHOOSE item \in contentItems : item.id = c.content_item_id
    IN ci.user_id

\* C1: read isolation.  What Search, QASearch and GET of a content item
\* return to user U holds only chunks and content items owned by U.
C1_ReadIsolation ==
    /\ (resp.op = "search" /\ resp.status = 200) =>
          \A i \in 1..Len(resp.results) : OwnerOfChunk(resp.results[i].ID) = resp.user
    /\ (resp.op = "qa" /\ resp.status = 200) =>
          \A i \in 1..Len(resp.answers) :
             OwnerOfChunk(resp.answers[i].ChunkID) = resp.user
    /\ (resp.op = "get" /\ resp.status = 200) =>
          /\ resp.item.user_id = resp.user
          /\ \A i \in 1..Len(resp.chunks) : OwnerOfChunk(resp.chunks[i].id) = resp.user

\* C6: LLM failures never fail QASearch.  A candidate whose call errors or
\* whose reply is not JSON is dropped, the other candidates are still
\* processed, and with no answer at all QASearch succeeds with an empty
\* list and strategy "qa-hybrid".
C6_LLMFailuresTolerated ==
    (resp.op = "qa" /\ claudeKeySet /\ resp.io = "ok") =>
        /\ resp.status = 200
        /\ resp.strategy = "qa-hybrid"
        /\ LET n == Len(resp.candidates)
               k == IF resp.limit = 0 THEN 5 ELSE resp.limit
               failed == {i \in 1..n : resp.replies[i].kind \in {"api_error", "bad_json"}}
               survivors == {i \in 1..n : ReplySurvives(resp.replies[i])}
           IN /\ \A i \in failed :
                   PositionsOf(resp.answers, resp.candidates[i].ChunkID) = {}
              /\ Len(resp.answers) = Min(k, Cardinality(survivors))
              /\ survivors = {} => (resp.answers = <<>> /\ resp.total = 0)

\* The call for the first candidate fails, the second candidate's answer
\* is returned all the same.
C6_Witness ==
    /\ resp.op = "qa" /\ resp.status = 200
    /\ Len(resp.candidates) = 2
    /\ resp.replies[1].kind = "api_error"
    /\ ReplySurvives(resp.replies[2])
    /\ Len(resp.answers) = 1
    /\ resp.answers[1].ChunkID = resp.candidates[2].ChunkID

\* The file can be opened and read, whatever text it holds.
FileReadable(file) == file.fault \notin {"corrupt", "encrypted"}

\* C7: when the extraction of an uploaded file yields empty text the
\* ingestion fails with an error and no content item is persisted.
C7_EmptyTextRejected ==
    (resp.op = "upload" /\ FileReadable(resp.file) /\ resp.file.text = <<>>) =>
        /\ resp.status = 500
        /\ \A ci \in contentItems : ci.id # resp.content_id

\* C8: when text extraction returns an error (a PDF that cannot be
\* decrypted, an unreadable container) ProcessDocument returns an error,
\* no row is written and no background task is started.
C8_ExtractionErrorLeavesStore ==
    [][ (resp = NoResp /\ resp'.op = "upload" /\ ~FileReadable(resp'.file)) =>
            /\ resp'.status = 500
            /\ UNCHANGED <<contentItems, chunks, embeddings, tasks>> ]_vars

\* The upload of an encrypted PDF was answered with an error.
C8_Witness ==
    /\ resp.op = "upload"
    /\ resp.file.ext = ".pdf" /\ resp.file.fault = "encrypted"
    /\ resp.status = 500
    /\ contentItems = {} /\ DOMAIN tasks = {}

\* C9: in every state the chunk_index values of the persisted chunks of a
\* content item are exactly 0..n-1, n the number of its persisted chunks.
C9_DenseChunkIndex ==
    \A ci \in contentItems :
        LET rows == {c \in chunks : c.content_item_id = ci.id}
        IN {c.chunk_index : c \in rows} = 0..(Cardinality(rows) - 1)

\* ------------------------------------------------------------------------
\* Claims about the chunker's round trip (SpecChunk)
\* ------------------------------------------------------------------------

RECURSIVE Flatten(_)
\* The spans of all chunks, in the order of the chunks.
Flatten(chunkSeq) ==
    IF chunkSeq = <<>> THEN <<>> ELSE Head(chunkSeq) \o Flatten(Tail(chunkSeq))

\* The spans of the chunks that come from sentence i of the input.
SpansOfSentence(chunkSeq, i) == SelectSeq(Flatten(chunkSeq), LAMBDA sp : sp.id = i)

\* With the overlap between consecutive windows removed, the spans of
\* sentence i give back the whole sentence, first unit to last.
SentenceReproduced(chunkSeq, i) ==
    LET sp == SpansOfSentence(chunkSeq, i)
        total == SentenceUnits(tokenizerLoaded, ckText[i])
    IN /\ Len(sp) >= 1
       /\ sp[1].from = 1
       /\ sp[Len(sp)].to = total
       /\ \A k \in 2..Len(sp) : sp[k].from <= sp[k - 1].to + 1 /\ sp[k].to > sp[k - 1].to

\* C11: the chunks of SmartChunkBySentences, concatenated in order with the
\* overlap removed, reproduce the whitespace-normalised input: every
\* sentence of the input is there, whole, and in the input's order.
C11_RoundTrip ==
    (ckOut.done /\ ~ckOut.out.hang) =>
        LET flat == Flatten(ckOut.out.chunks)
        IN /\ \A i \in 1..Len(ckText) : SentenceReproduced(ckOut.out.chunks, i)
           /\ \A k \in 2..Len(flat) : flat[k - 1].id <= flat[k].id

\* ------------------------------------------------------------------------
\* Claims about the completion of an ingestion (Spec)
\* ------------------------------------------------------------------------

\* The model tag CreateEmbedding gives under the running configuration.
ActiveModel == IF apiKeySet THEN RealModel ELSE MockModel

\* The chunk has a persisted embedding under the active model and version.
HasActiveEmbedding(chunkID) ==
    \E e \in embeddings :
        /\ e.chunk_id = chunkID
        /\ e.embedding_model = ActiveModel
        /\ e.embedding_version = 1

\* C12: the pipeline never logs its final "processing_complete" success
\* step for a document while some chunk of that document has no persisted
\* embedding under the active model and version.
C12_CompleteMeansEmbedded ==
    \A id \in DOMAIN tasks :
        tasks[id].complete =>
            \A i \in 0..(Len(tasks[id].chunkTexts) - 1) : HasActiveEmbedding(<<id, i>>)

\* ------------------------------------------------------------------------
\* SpecStore: the tables users, content_items, chunks and embeddings under
\* the inserts and deletes their schema admits (modern_schema.sql; the
\* tables setupDatabase creates have no users table and no ON DELETE rule)
\* ------------------------------------------------------------------------

\* The number of content items ever inserted.
MaxItems == 2

\* The chunk_index values of the chunks inserted for an item.
ChunkIndexes == {0, 1}

Schemas == {"modern", "test"}

\* A variant of the delete that removes the content_items rows alone.
DeleteItemsOnly(db, ids) == [db EXCEPT !.items = {ci \in db.items : ci.id \notin ids}]

\* DELETE of the content items `ids` under ON DELETE CASCADE: their chunks
\* go, and the embeddings of those chunks.  db = [items, chunks, embeddings].
CascadeDeleteItems(db, ids) ==
    LET goneChunks == {c \in db.chunks : c.content_item_id \in ids}
    IN [items |-> {ci \in db.items : ci.id \notin ids},
        chunks |-> db.chunks \ goneChunks,
        embeddings |-> {e \in db.embeddings : \A c \in goneChunks : e.chunk_id # c.id}]

\* The three tables as one value.
Database == [items |-> contentItems, chunks |-> chunks, embeddings |-> embeddings]

InitStore ==
    /\ dbSchema \in Schemas
    /\ dbUsers = {}
    /\ fuIn = [vector |-> <<>>, text |-> <<>>, limit |-> 0] /\ fuOut = NotRun
    /\ vsOut = NotRun
    /\ MoreIdle
    /\ ConfigIdle /\ StoreIdle /\ ChunkIdle /\ RankIdle /\ AdaptorIdle /\ QAIdle

\* INSERT INTO users.
InsertUser(u) ==
    /\ dbSchema = "modern" /\ u \notin dbUsers
    /\ dbUsers' = dbUsers \cup {u}
    /\ resp' = NoResp
    /\ UNCHANGED <<nextId, contentItems, chunks, embeddings, tasks, dbSchema, configVars,
                   chunkVars, rankVars, adaptorVars, qaVars, fusionVars, vectorVars, moreVars>>

\* INSERT INTO content_items: user_id REFERENCES users(id) in the modern
\* schema, a plain column in the test schema.
InsertContentItem(u) ==
    /\ nextId <= MaxItems
    /\ dbSchema = "modern" => u \in dbUsers
    /\ contentItems' = contentItems \cup
          {[id |-> nextId, user_id |-> u, content_type |-> "document"]}
    /\ nextId' = nextId + 1
    /\ resp' = NoResp
    /\ UNCHANGED <<chunks, embeddings, tasks, schemaVars, configVars,
                   chunkVars, rankVars, adaptorVars, qaVars, fusionVars, vectorVars, moreVars>>

\* INSERT INTO chunks: content_item_id REFERENCES content_items(id).
InsertChunk(id, i) ==
    /\ \E ci \in contentItems : ci.id = id
    /\ \A c \in chunks : c.id # <<id, i>>
    /\ chunks' = chunks \cup {ChunkRow(id, i, <<>>)}
    /\ resp' = NoResp
    /\ UNCHANGED <<nextId, contentItems, embeddings, tasks, schemaVars, configVars,
                   chunkVars, rankVars, adaptorVars, qaVars, fusionVars, vectorVars, moreVars>>

\* INSERT INTO embeddings: chunk_id REFERENCES chunks(id).
InsertEmbedding(id, i) ==
    /\ \E c \in chunks : c.id = <<id, i>>
    /\ \A e \in embeddings : e.chunk_id # <<id, i>>
    /\ embeddings' = embeddings \cup
          {[chunk_id |-> <<id, i>>, embedding_model |-> RealModel, embedding_version |-> 1]}
    /\ resp' = NoResp
    /\ UNCHANGED <<nextId, contentItems, chunks, tasks, schemaVars, configVars,
                   chunkVars, rankVars, adaptorVars, qaVars, fusionVars, vectorVars, moreVars>>

\* DELETE FROM content_items WHERE id = ...: cascades in the modern schema;
\* in the test schema the statement fails while a chunk references the row.
DeleteContentItem(id) ==
    /\ \E ci \in contentItems : ci.id = id
    /\ LET mine == {c \in chunks : c.content_item_id = id}
           ok == dbSchema = "modern" \/ mine = {}
           db == IF ok THEN CascadeDeleteItems(Database, {id}) ELSE Database
       IN /\ contentItems' = db.items
          /\ chunks' = db.chunks
          /\ embeddings' = db.embeddings
          /\ resp' = [op |-> "delete_content_item", ids |-> {id}, ok |-> ok,
                      chunks |-> Cardinality(mine),
                      embeddings |-> Cardinality({e \in embeddings :
                                         \E c \in mine : c.id = e.chunk_id})]
    /\ UNCHANGED <<nextId, tasks, schemaVars, configVars,
                   chunkVars, rankVars, adaptorVars, qaVars, fusionVars, vectorVars, moreVars>>

\* DELETE FROM users WHERE id = ...: cascades to the user's content items.
DeleteUser(u) ==
    /\ dbSchema = "modern" /\ u \in dbUsers
    /\ LET ids == {ci.id : ci \in {x \in contentItems : x.user_id = u}}
           mine == {c \in chunks : c.content_item_id \in ids}
           db == CascadeDeleteItems(Database, ids)
       IN /\ contentItems' = db.items
          /\ chunks' = db.chunks
          /\ embeddings' = db.embeddings
          /\ resp' = [op |-> "delete_user", ids |-> ids, ok |-> TRUE,
                      chunks |-> Cardinality(mine),
                      embeddings |-> Cardinality({e \in embeddings :
                                         \E c \in mine : c.id = e.chunk_id})]
    /\ dbUsers' = dbUsers \ {u}
    /\ UNCHANGED <<nextId, tasks, dbSchema, configVars,
                   chunkVars, rankVars, adaptorVars, qaVars, fusionVars, vectorVars, moreVars>>

NextStore ==
    \/ \E u \in Users : InsertUser(u)
    \/ \E u \in Users : InsertContentItem(u)
    \/ \E id \in 1..MaxItems, i \in ChunkIndexes : InsertChunk(id, i)
    \/ \E id \in 1..MaxItems, i \in ChunkIndexes : InsertEmbedding(id, i)
    \/ \E id \in 1..MaxItems : DeleteContentItem(id)
    \/ \E u \in Users : DeleteUser(u)

SpecStore == InitStore /\ [][NextStore]_vars

\* Every chunk row references an existing content item and every embedding
\* row an existing chunk.
ReferentialIntegrity ==
    /\ \A c \in chunks : \E ci \in contentItems : ci.id = c.content_item_id
    /\ \A e \in embeddings : \E c \in chunks : c.id = e.chunk_id

C14_CancelDiscardsPartials ==
    (qaOut.done /\ qaIn.cancelAt > 0) => qaOut.out.err

\* ------------------------------------------------------------------------
\* SpecFusion: combineResults and prepareCandidateChunks on the result
\* lists the two channels can hand them
\* ------------------------------------------------------------------------

\* The largest limit of a request; each channel returns at most limit rows.
MaxResults == 3

\* The chunks the channels find: two of a document, two of an audio item.
FusionChunks == {<<1, 0>>, <<1, 1>>, <<2, 0>>, <<2, 1>>}

FusionType(id) == IF id[1] = 1 THEN "document" ELSE "audio"

\* The base scores of a channel (1 - distance, ts_rank), in tenths.
FusionScores == {2, 6}

FusionResult(id, score, source) ==
    ToSearchResult([id |-> id, chunk_text |-> <<FullSpan(FALSE, 1, Fragment)>>],
                   [content_type |-> FusionType(id)], Tenths(score), source)

\* ORDER BY distance / ORDER BY rank DESC: no result before one of smaller
\* relevance.
InChannelOrder(results) ==
    \A k \in 2..Len(results) : ~RatGT(results[k].Relevance, results[k - 1].Relevance)

DistinctIDs(results) ==
    \A j, k \in 1..Len(results) : j # k => results[j].ID # results[k].ID

\* What vectorSearch can return for a limit: one row per embedding of the
\* query's model, so a chunk with several embeddings appears several times.
VectorLists(limit) ==
    {r \in SeqsUpTo({FusionResult(id, sc, "vector") : id \in FusionChunks, sc \in FusionScores},
                    limit) : InChannelOrder(r)}

\* What fullTextSearch can return for a limit: one row per chunk
\* (chunks.id is the primary key).
TextLists(limit) ==
    {r \in SeqsUpTo({FusionResult(id, sc, "fulltext") : id \in FusionChunks, sc \in FusionScores},
                    limit) : InChannelOrder(r) /\ DistinctIDs(r)}

\* A variant in which the loop writes the score back into its argument.
ArgumentRescored(results) ==
    [k \in 1..Len(results) |->
        [results[k] EXCEPT !.Relevance = calculateAdvancedRelevance(results[k])]]

\* The caller's slice after combineResults has ranged over it: the loop
\* variable is a copy, the assignment to result.Relevance does not reach
\* the slice.
ArgumentAfterCombine(results) == results

\* The results of the calls made so far.
Combined == IF fuOut.done THEN fuOut.out.combined ELSE <<>>
Candidates == IF fuOut.done THEN fuOut.out.candidates ELSE <<>>

InitFusion ==
    /\ \E limit \in 1..MaxResults :
         \E v \in VectorLists(limit), t \in TextLists(limit) :
            fuIn = [vector |-> v, text |-> t, limit |-> limit]
    /\ fuOut = NotRun
    /\ SchemaIdle /\ VectorIdle /\ MoreIdle
    /\ ConfigIdle /\ StoreIdle /\ ChunkIdle /\ RankIdle /\ AdaptorIdle /\ QAIdle

\* Search from the two channel results on: combineResults(vectorResults,
\* textResults, limit); the caller may call it again on the same slices.
RunCombine ==
    /\ Len(Combined) < 2
    /\ fuOut' = Returned([combined |-> Append(Combined,
                              combineResults(fuIn.vector, fuIn.text, fuIn.limit)),
                          candidates |-> Candidates])
    /\ fuIn' = [fuIn EXCEPT !.vector = ArgumentAfterCombine(fuIn.vector),
                            !.text = ArgumentAfterCombine(fuIn.text)]
    /\ UNCHANGED <<configVars, storeVars, chunkVars, rankVars, adaptorVars, qaVars,
                   schemaVars, vectorVars, moreVars>>

\* QASearch from the two channel results on, up to the extraction:
\* prepareCandidateChunks(vectorResults, textResults, candidateLimit).
RunPrepare ==
    /\ Candidates = <<>>
    /\ fuOut' = Returned([combined |-> Combined,
                          candidates |-> <<prepareCandidateChunks(fuIn.vector, fuIn.text,
                                                                  fuIn.limit)>>])
    /\ UNCHANGED <<fuIn, configVars, storeVars, chunkVars, rankVars, adaptorVars, qaVars,
                   schemaVars, vectorVars, moreVars>>

NextFusion == RunCombine \/ RunPrepare

SpecFusion == InitFusion /\ [][NextFusion]_vars

\* ------------------------------------------------------------------------
\* Claims about the fusion (SpecFusion)
\* ------------------------------------------------------------------------

IDsOf(results) == [k \in 1..Len(results) |-> results[k].ID]

VectorChunkIndexes == {0, 1}
VectorVersions == {1, 2}

VectorEmbeddingRows ==
    {[chunk_id |-> <<1, i>>, embedding_model |-> m, embedding_version |-> v] :
        i \in VectorChunkIndexes, m \in {RealModel, MockModel}, v \in VectorVersions}

InitVector ==
    /\ tokenizerLoaded = FALSE /\ claudeKeySet = FALSE
    /\ apiKeySet \in BOOLEAN
    /\ nextId = 2
    /\ contentItems = {[id |-> 1, user_id |-> "u1", content_type |-> "document"]}
    /\ chunks = {ChunkRow(1, i, <<>>) : i \in VectorChunkIndexes}
    /\ embeddings \in SUBSET VectorEmbeddingRows
    /\ tasks = <<>> /\ resp = NoResp
    /\ vsOut = NotRun
    /\ SchemaIdle /\ FusionIdle /\ MoreIdle
    /\ ChunkIdle /\ RankIdle /\ AdaptorIdle /\ QAIdle

\* vectorSearch(query, limit): the query's embedding from CreateEmbedding,
\* then the rows of its model.
RunVectorSearch(q, limit, providerOk) ==
    /\ ~vsOut.done
    /\ LET embedding == CreateEmbedding(apiKeySet, providerOk)
       IN IF embedding.err
          THEN vsOut' = Returned([err |-> TRUE, model |-> embedding.model,
                                  limit |-> limit, results |-> <<>>])
          ELSE \E results \in vectorSearch(contentItems, chunks, embeddings, q,
                                           embedding.model, limit) :
                  vsOut' = Returned([err |-> FALSE, model |-> embedding.model,
                                     limit |-> limit, results |-> results])
    /\ UNCHANGED <<configVars, storeVars, chunkVars, rankVars, adaptorVars, qaVars,
                   schemaVars, fusionVars, moreVars>>

NextVector == \E q \in Queries, limit \in 1..MaxResults, providerOk \in BOOLEAN :
                 RunVectorSearch(q, limit, providerOk)

SpecVector == InitVector /\ [][NextVector]_vars

\* The embeddings of a chunk under a model tag.
EmbeddingsOf(chunkID, model) ==
    {e \in embeddings : e.chunk_id = chunkID /\ e.embedding_model = model}

\* C16: a vector search returns only rows whose embedding_model equals the
\* model tag of the query embedding: without a client the tag is
\* "mock-embedding-dev", with one it is the real model, and no chunk is
\* returned more often than it has embeddings of that tag (none is
\* retrieved through a vector of the other model).
C16_SameModelOnly ==
    (vsOut.done /\ ~vsOut.out.err) =>
        /\ vsOut.out.model = (IF apiKeySet THEN RealModel ELSE MockModel)
        /\ \A k \in 1..Len(vsOut.out.results) :
              LET id == vsOut.out.results[k].ID
              IN Cardinality({j \in 1..Len(vsOut.out.results) : vsOut.out.results[j].ID = id})
                    <= Cardinality(EmbeddingsOf(id, vsOut.out.model))

\* C16 witness: a search returned a chunk while the limit left room for a
\* second chunk that has embeddings of the other model only.
C16_Witness ==
    /\ vsOut.done /\ ~vsOut.out.err
    /\ Len(vsOut.out.results) >= 1 /\ Len(vsOut.out.results) < vsOut.out.limit
    /\ \E c \in chunks :
          /\ EmbeddingsOf(c.id, vsOut.out.model) = {}
          /\ \E e \in embeddings : e.chunk_id = c.id

\* ------------------------------------------------------------------------
\* Claims about the fused ranking (SpecFusion)
\* ------------------------------------------------------------------------

\* The fused list of combineResults before it is sorted and truncated.
FusedList == CollectText(fuIn.text, CollectVector(fuIn.vector, <<>>))

\* The fused relevance of a chunk one of the channels returned.
FusedScore(id) == FusedList[IndexOfID(FusedList, id)].Relevance

ChannelIDs == Range(IDsOf(fuIn.vector)) \cup Range(IDsOf(fuIn.text))

\* C17: QASearch asks each channel for 3 * k results and the candidates it
\* passes to the extractor are the top 3 * k of the fused ranking: no chunk
\* left out has a higher fused relevance than a chunk passed on.
C17_CandidatesAreFusedTop ==
    (Candidates # <<>> /\ fuIn.limit % 3 = 0) =>
        LET passed == {Candidates[1][k].ChunkID : k \in 1..Len(Candidates[1])}
        IN /\ Len(Candidates[1]) = Min(fuIn.limit, Cardinality(ChannelIDs))
           /\ \A o \in ChannelIDs \ passed, c \in passed :
                 ~RatGT(FusedScore(o), FusedScore(c))

\* The base result of a chunk: its first row in the vector list, else its
\* first row in the text list.
BaseResult(id) ==
    IF IndexOfID(fuIn.vector, id) # 0 THEN fuIn.vector[IndexOfID(fuIn.vector, id)]
    ELSE fuIn.text[IndexOfID(fuIn.text, id)]

InBothChannels(id) == IndexOfID(fuIn.vector, id) # 0 /\ IndexOfID(fuIn.text, id) # 0

\* The score the fusion rule gives a chunk: the advanced relevance of its
\* base result, times 1.2 when both channels returned the chunk.
ExpectedFused(id) ==
    LET adv == calculateAdvancedRelevance(BaseResult(id))
    IN IF InBothChannels(id) THEN RatMul(adv, Rat(12, 10)) ELSE adv

\* C18: a result's score is multiplied by 1.2 exactly once if and only if
\* its chunk_id appears in both the vector and the text list; a chunk of
\* one channel only keeps its un-boosted score, also when that channel
\* lists it more than once.
C18_BoostOnceIffBoth ==
    \A n \in 1..Len(Combined) : \A k \in 1..Len(Combined[n]) :
        Combined[n][k].Relevance = ExpectedFused(Combined[n][k].ID)

\* C18 witness: the output holds a chunk both channels returned and a
\* chunk the vector channel alone returned, twice.
C18_Witness ==
    /\ Combined # <<>>
    /\ \E k \in 1..Len(Combined[1]) : InBothChannels(Combined[1][k].ID)
    /\ \E k \in 1..Len(Combined[1]) :
          /\ ~InBothChannels(Combined[1][k].ID)
          /\ Cardinality({j \in 1..Len(fuIn.vector) :
                             fuIn.vector[j].ID = Combined[1][k].ID}) = 2

\* C19: the output of combineResults holds no chunk_id twice, is in
\* non-increasing order of fused relevance, is at most limit long, and
\* leaves out no chunk of a strictly higher fused relevance than a chunk
\* it holds.
C19_TopOfFusedRanking ==
    \A n \in 1..Len(Combined) :
        LET r == Combined[n]
        IN /\ DistinctIDs(r)
           /\ InChannelOrder(r)
           /\ Len(r) = Min(fuIn.limit, Cardinality(ChannelIDs))
           /\ Range(IDsOf(r)) \subseteq ChannelIDs
           /\ \A o \in ChannelIDs \ Range(IDsOf(r)) : \A k \in 1..Len(r) :
                 ~RatGT(ExpectedFused(o), r[k].Relevance)

\* C19 witness: the output is a full page that leaves a chunk out and that
\* starts with a chunk the text channel alone returned, although the
\* vector list is not empty.
C19_Witness ==
    /\ Combined # <<>>
    /\ Len(Combined[1]) = fuIn.limit
    /\ Cardinality(ChannelIDs) > fuIn.limit
    /\ fuIn.vector # <<>>
    /\ IndexOfID(fuIn.vector, Combined[1][1].ID) = 0

IdBefore(a, b) == a[1] < b[1] \/ (a[1] = b[1] /\ a[2] < b[2])

\* C20: results of equal fused relevance are ordered by descending base
\* score and then by chunk_id, so that the output does not depend on the
\* order in which the channels delivered them.
C20_TiesTotallyOrdered ==
    \A n \in 1..Len(Combined) : \A k \in 2..Len(Combined[n]) :
        LET x == Combined[n][k - 1]
            y == Combined[n][k]
        IN x.Relevance = y.Relevance =>
              \/ RatGT(BaseResult(x.ID).Relevance, BaseResult(y.ID).Relevance)
              \/ /\ BaseResult(x.ID).Relevance = BaseResult(y.ID).Relevance
                 /\ IdBefore(x.ID, y.ID)

\* ------------------------------------------------------------------------
\* SpecIngest: concurrent ingestions.  Uploads and the steps of their
\* background tasks interleave freely; there are no read handlers.
\* ------------------------------------------------------------------------

\* The number of documents uploaded.
MaxIngestions == 2

\* The uploaded files: plain text of every size, and a PDF that cannot be
\* opened.
IngestFiles ==
    {[ext |-> ".txt", fault |-> "none", text |-> t] : t \in UploadTexts}
    \cup {[ext |-> ".pdf", fault |-> "corrupt", text |-> <<>>]}

\* A variant of the insert whose failure goes unnoticed.
ContentItemCreateUnchecked(items, item, io) ==
    [err |-> FALSE, items |-> IF io = "db_fail" THEN items ELSE items \cup {item}]

\* t.db.Table("content_items").Create(contentItem): [err, items].
ContentItemCreate(items, item, io) ==
    IF io = "db_fail" THEN [err |-> TRUE, items |-> items]
    ELSE [err |-> FALSE, items |-> items \cup {item}]

InitIngest ==
    /\ tokenizerLoaded \in BOOLEAN
    /\ apiKeySet \in BOOLEAN
    /\ claudeKeySet = FALSE
    /\ StoreIdle /\ ChunkIdle /\ RankIdle /\ AdaptorIdle /\ QAIdle /\ HarnessIdle

\* ProcessDocumentWithLogging as its caller sees it: read and extract the
\* file, insert the content item, start the background task with `go`,
\* return the item.
Ingest(u, file, io) ==
    /\ nextId <= MaxIngestions
    /\ LET x == ExtractText(file)
           contentItem == [id |-> nextId, user_id |-> u, content_type |-> "document"]
           c == ContentItemCreate(contentItems, contentItem, io)
       IN IF io = "read_fail" \/ x.err \/ c.err
          THEN /\ resp' = [op |-> "upload", user |-> u, file |-> file, status |-> 500,
                           content_id |-> 0]
               /\ UNCHANGED <<nextId, contentItems, tasks>>
          ELSE /\ contentItems' = c.items
               /\ tasks' = tasks @@ (nextId :> NewTask(x.text))
               /\ nextId' = nextId + 1
               /\ resp' = [op |-> "upload", user |-> u, file |-> file, status |-> 201,
                           content_id |-> contentItem.id]
    /\ UNCHANGED <<chunks, embeddings, configVars, chunkVars, rankVars, adaptorVars, qaVars, harnessVars>>

NextIngest ==
    \/ \E u \in Users, file \in IngestFiles, io \in {"ok", "read_fail", "db_fail"} :
          Ingest(u, file, io)
    \/ \E id \in 1..MaxIngestions : TaskChunk(id)
    \/ \E id \in 1..MaxIngestions, dbOk \in BOOLEAN : TaskSaveChunk(id, dbOk)
    \/ \E id \in 1..MaxIngestions, outcome \in {"ok", "create_fail", "save_fail"} :
          TaskEmbed(id, outcome)
    \/ \E id \in 1..MaxIngestions : TaskComplete(id)

SpecIngest == InitIngest /\ [][NextIngest]_vars

\* The rows of a document.
ChunksOfItem(chunkRows, id) == {c \in chunkRows : c.content_item_id = id}
EmbeddingsOfItem(embRows, id) == {e \in embRows : e.chunk_id[1] = id}

\* C21: ProcessDocument returns the content item only after its row is
\* persisted and without waiting for chunking or embedding (the task has
\* not taken a step and the document has no chunk when the call returns),
\* and in every interleaving of concurrent ingestions a chunk or embedding
\* row of a document is written only when the document's content item row
\* is already there.
C21_ItemBeforeChunks ==
    [][ /\ (resp'.op = "upload" /\ resp'.status = 201 /\ nextId' # nextId) =>
              /\ \E ci \in contentItems' : ci.id = resp'.content_id
              /\ tasks'[resp'.content_id].pc = "chunking"
              /\ ChunksOfItem(chunks', resp'.content_id) = {}
        /\ \A c \in chunks' \ chunks : \E ci \in contentItems : ci.id = c.content_item_id
        /\ \A e \in embeddings' \ embeddings :
              /\ \E c \in chunks : c.id = e.chunk_id
              /\ \E ci \in contentItems : ci.id = e.chunk_id[1]
      ]_vars

\* C21 witness: the second document was accepted while the first one's
\* task was between two of its writes, and both documents have chunks.
C21_Witness ==
    /\ DOMAIN tasks = {1, 2}
    /\ ChunksOfItem(chunks, 1) # {} /\ ChunksOfItem(chunks, 2) # {}
    /\ EmbeddingsOfItem(embeddings, 2) # {}
    /\ tasks[1].pc = "embedding" /\ tasks[2].pc = "save_chunk" /\ tasks[2].i = 1

\* ------------------------------------------------------------------------
\* Claims about retrieval during ingestion (Spec)
\* ------------------------------------------------------------------------

HasEmbedding(chunkID) == \E e \in embeddings : e.chunk_id = chunkID

\* C22: a chunk that has no persisted embedding (its ingestion is still in
\* progress, or its embedding call or save failed) is never returned by
\* Search and never used as a candidate of QASearch.
C22_UnembeddedChunksIgnored ==
    /\ (resp.op = "search" /\ resp.status = 200) =>
          \A k \in 1..Len(resp.results) : HasEmbedding(resp.results[k].ID)
    /\ (resp.op = "qa" /\ resp.status \in {200, 500} /\ resp.io = "ok") =>
          \A k \in 1..Len(resp.candidates) : HasEmbedding(resp.candidates[k].ChunkID)

\* ------------------------------------------------------------------------
\* Claims about failures during background ingestion (SpecIngest)
\* ------------------------------------------------------------------------

\* The step of task id that ends its attempt on chunk i without a row.
FailedAttempt(id) ==
    /\ id \in DOMAIN tasks /\ tasks'[id] # tasks[id]
    /\ \/ tasks[id].pc = "save_chunk" /\ chunks' = chunks
       \/ tasks[id].pc = "embedding" /\ embeddings' = embeddings

\* C23: during background ingestion a failure to save chunk i, or to create
\* or save its embedding, is skipped: the task goes on to chunk i + 1 when
\* there is one (and to its summary when there is none), the rows written
\* before remain, and the content item row is retained, also when no chunk
\* and embedding pair was persisted.
C23_FailuresSkipped ==
    [][ /\ chunks \subseteq chunks'
        /\ embeddings \subseteq embeddings'
        /\ contentItems \subseteq contentItems'
        /\ \A id \in 1..MaxIngestions : FailedAttempt(id) =>
              /\ tasks'[id].i = tasks[id].i + 1
              /\ tasks'[id].pc = (IF tasks[id].i + 1 < Len(tasks[id].chunkTexts)
                                  THEN "save_chunk" ELSE "complete")
      ]_vars

\* C23 witness: chunk 0 of document 1 was not saved and its chunk 1 was,
\* with its embedding; document 2 is complete without a single row and
\* its content item is still there.
C23_Witness ==
    /\ DOMAIN tasks = {1, 2}
    /\ {c.chunk_index : c \in ChunksOfItem(chunks, 1)} = {1}
    /\ EmbeddingsOfItem(embeddings, 1) # {}
    /\ tasks[2].complete /\ Len(tasks[2].chunkTexts) = 2
    /\ ChunksOfItem(chunks, 2) = {} /\ EmbeddingsOfItem(embeddings, 2) = {}
    /\ \E ci \in contentItems : ci.id = 2

\* ------------------------------------------------------------------------
\* Claims about the order of chunks (Spec)
\* ------------------------------------------------------------------------

\* C24: the chunk rows of a document are written in strictly increasing
\* chunk_index order (a row is never written when the document already has
\* a row of the same or a larger index), and reading a content item
\* returns all its chunks ordered by chunk_index.
C24_ChunkOrder ==
    [][ /\ \A c \in chunks' \ chunks : \A b \in ChunksOfItem(chunks, c.content_item_id) :
              b.chunk_index < c.chunk_index
        /\ (resp'.op = "get" /\ resp'.status = 200) =>
              /\ \A k \in 2..Len(resp'.chunks) :
                    resp'.chunks[k - 1].chunk_index < resp'.chunks[k].chunk_index
              /\ Range(resp'.chunks) = ChunksOfItem(chunks', resp'.item_id)
      ]_vars

\* C24 witness: a content item was read that has two chunks.
C24_Witness ==
    /\ resp.op = "get" /\ resp.status = 200
    /\ Len(resp.chunks) = 2

\* ------------------------------------------------------------------------
\* SpecOverlap: ChunkWithOverlap on one text, for every chunkSize and
\* overlap, with and without the tokenizer
\* ------------------------------------------------------------------------

\* The words of the longest text, the largest chunkSize, the largest overlap.
MaxWords == 8
MaxChunkSize == 4
MaxOverlap == 5

InitOverlap ==
    /\ tokenizerLoaded \in BOOLEAN
    /\ apiKeySet = FALSE /\ claudeKeySet = FALSE
    /\ \E n \in 1..MaxWords :
          ckText = <<[n |-> n, wlen |-> 5, digit |-> FALSE, stop |-> FALSE]>>
    /\ ckMaxTokens \in 1..MaxChunkSize
    /\ ckOut = NotRun
    /\ StoreIdle /\ RankIdle /\ AdaptorIdle /\ QAIdle /\ HarnessIdle

\* c.ChunkWithOverlap(text, chunkSize, overlap)
RunChunkWithOverlap(overlap) ==
    /\ ~ckOut.done
    /\ LET r == ChunkWithOverlap(tokenizerLoaded, 1, ckText[1], ckMaxTokens, overlap)
       IN ckOut' = Returned([overlap |-> overlap, chunks |-> r.chunks, hang |-> r.hang])
    /\ UNCHANGED <<ckText, ckMaxTokens, configVars, storeVars, rankVars, adaptorVars, qaVars, harnessVars>>

NextOverlap == \E overlap \in 0..MaxOverlap : RunChunkWithOverlap(overlap)

SpecOverlap == InitOverlap /\ [][NextOverlap]_vars

\* The tokens of the text (words without the tokenizer) and the windows
\* returned: window k is the single span of chunk k.
OverlapTotal == SentenceUnits(tokenizerLoaded, ckText[1])
WindowOf(k) == ckOut.out.chunks[k][1]

\* C25: for a text of more than chunkSize tokens and 0 <= overlap <
\* chunkSize, ChunkWithOverlap returns windows of at most chunkSize tokens
\* each, every two consecutive windows share exactly overlap tokens, and
\* the windows cover the text from its first token to its last in the
\* original order; a text of at most chunkSize tokens is returned
\* unchanged as a single chunk.
C25_OverlapWindows ==
    (ckOut.done /\ ckOut.out.overlap < ckMaxTokens) =>
        /\ ~ckOut.out.hang
        /\ \A k \in 1..Len(ckOut.out.chunks) : Len(ckOut.out.chunks[k]) = 1
        /\ IF OverlapTotal <= ckMaxTokens
           THEN ckOut.out.chunks = << <<FullSpan(tokenizerLoaded, 1, ckText[1])>> >>
           ELSE /\ Len(ckOut.out.chunks) >= 2
                /\ WindowOf(1).from = 1
                /\ WindowOf(Len(ckOut.out.chunks)).to = OverlapTotal
                /\ \A k \in 1..Len(ckOut.out.chunks) :
                      SpanLen(WindowOf(k)) >= 1 /\ SpanLen(WindowOf(k)) <= ckMaxTokens
                /\ \A k \in 2..Len(ckOut.out.chunks) :
                      /\ WindowOf(k - 1).to - WindowOf(k).from + 1 = ckOut.out.overlap
                      /\ WindowOf(k).from > WindowOf(k - 1).from

\* C25 witness: a text was cut into at least three windows that overlap
\* by two tokens.
C25_Witness ==
    /\ ckOut.done /\ ~ckOut.out.hang
    /\ ckOut.out.overlap = 2 /\ ckOut.out.overlap < ckMaxTokens
    /\ Len(ckOut.out.chunks) >= 3

\* C27: ChunkWithOverlap terminates for every text, every chunkSize >= 1
\* and every overlap >= 0, also when overlap >= chunkSize: the window start
\* strictly advances on every iteration, so the call returns.
C27_OverlapTerminates ==
    ckOut.done => ~ckOut.out.hang

\* ------------------------------------------------------------------------
\* SpecHTML: extractHTMLText on small documents
\* ------------------------------------------------------------------------

\* The extracted text is a sequence of units: "\n", " ", or a word.
IsSpace(u) == u = " " \/ u = "\n"

isBlockElement(tagName) ==
    tagName \in {"div", "p", "h1", "h2", "h3", "h4", "h5", "h6", "br", "hr",
                 "blockquote", "pre", "ul", "ol", "li", "table", "tr", "td", "th",
                 "section", "article", "header", "footer", "main", "aside", "nav"}

RECURSIVE HTMLBuild(_, _, _)
\* The token loop of extractHTMLText: what textBuilder holds at the end.
\* Only start tags, end tags and text have a case in the switch.
HTMLBuild(tokens, skipContent, out) ==
    IF tokens = <<>> THEN out
    ELSE LET t == Head(tokens)
         IN IF t.type \in {"start", "end"}
            THEN HTMLBuild(Tail(tokens),
                    IF t.data \in {"script", "style"} THEN t.type = "start" ELSE skipContent,
                    IF isBlockElement(t.data) THEN Append(out, "\n") ELSE out)
            ELSE IF t.type = "text" /\ ~skipContent /\ t.data # ""
            THEN HTMLBuild(Tail(tokens), skipContent, out \o <<t.data, " ">>)
            ELSE HTMLBuild(Tail(tokens), skipContent, out)

RECURSIVE CollapseWhitespace(_)
\* regexp `\s+` replaced by " ": every run of spaces and newlines becomes
\* one space.
CollapseWhitespace(text) ==
    IF text = <<>> THEN <<>>
    ELSE IF IsSpace(Head(text))
    THEN IF Len(text) >= 2 /\ IsSpace(text[2]) THEN CollapseWhitespace(Tail(text))
         ELSE <<" ">> \o CollapseWhitespace(Tail(text))
    ELSE <<Head(text)>> \o CollapseWhitespace(Tail(text))

\* The length of the run of spaces and newlines text starts with.
RECURSIVE SpaceRun(_)
SpaceRun(text) ==
    IF text = <<>> \/ ~IsSpace(Head(text)) THEN 0 ELSE 1 + SpaceRun(Tail(text))

RECURSIVE CollapseBlankLines(_)
\* regexp `\n\s*\n` replaced by "\n\n": a newline, the longest following
\* run that ends in a newline, become two newlines.
CollapseBlankLines(text) ==
    IF text = <<>> THEN <<>>
    ELSE LET run == SpaceRun(text)
             ends == {k \in 2..run : text[k] = "\n"}
         IN IF Head(text) = "\n" /\ ends # {}
            THEN LET last == CHOOSE k \in ends : \A j \in ends : j <= k
                 IN <<"\n", "\n">> \o CollapseBlankLines(SubSeq(text, last + 1, Len(text)))
            ELSE <<Head(text)>> \o CollapseBlankLines(Tail(text))

RECURSIVE TrimLeft(_)
TrimLeft(text) ==
    IF text # <<>> /\ IsSpace(Head(text)) THEN TrimLeft(Tail(text)) ELSE text

RECURSIVE TrimRight(_)
TrimRight(text) ==
    IF text # <<>> /\ IsSpace(text[Len(text)])
    THEN TrimRight(SubSeq(text, 1, Len(text) - 1)) ELSE text

\* strings.TrimSpace
TrimSpace(text) == TrimRight(TrimLeft(text))

\* extractHTMLText
extractHTMLText(tokens) ==
    TrimSpace(CollapseBlankLines(CollapseWhitespace(HTMLBuild(tokens, FALSE, <<>>))))

\* The most tokens of a document.
MaxHtmlTokens == 4

\* The tokens of the documents: tags of a block element, of an inline
\* element and of script, and text nodes; "s" is text inside a script.
HTMLTokens ==
    {[type |-> ty, data |-> tag] : ty \in {"start", "end"}, tag \in {"p", "span", "script"}}
    \cup {[type |-> "text", data |-> w] : w \in {"a", "b", "s"}}

\* What html.Tokenizer can produce: after <script> comes raw text up to
\* </script>, and "s" stands for such text only.
Tokenizable(tokens) ==
    \A k \in 1..Len(tokens) :
        /\ (k > 1 /\ tokens[k - 1] = [type |-> "start", data |-> "script"]) =>
               tokens[k].type = "text" \/ tokens[k] = [type |-> "end", data |-> "script"]
        /\ (k > 2 /\ tokens[k - 1].type = "text"
              /\ tokens[k - 2] = [type |-> "start", data |-> "script"]) =>
               tokens[k] = [type |-> "end", data |-> "script"]
        /\ (tokens[k] = [type |-> "text", data |-> "s"]) <=>
               (k > 1 /\ tokens[k - 1] = [type |-> "start", data |-> "script"]
                      /\ tokens[k].type = "text")
        /\ (k > 1 /\ tokens[k].type = "text") => tokens[k - 1].type # "text"

InitHTML ==
    /\ htIn \in {t \in SeqsUpTo(HTMLTokens, MaxHtmlTokens) : Tokenizable(t)}
    /\ htOut = NotRun
    /\ ChatIdle /\ LogIdle
    /\ SchemaIdle /\ FusionIdle /\ VectorIdle
    /\ ConfigIdle /\ StoreIdle /\ ChunkIdle /\ RankIdle /\ AdaptorIdle /\ QAIdle

\* text := t.extractHTMLText(content)
RunExtractHTML ==
    /\ ~htOut.done
    /\ htOut' = Returned(extractHTMLText(htIn))
    /\ UNCHANGED <<htIn, chatVars, logVars, schemaVars, fusionVars, vectorVars,
                   configVars, storeVars, chunkVars, rankVars, adaptorVars, qaVars>>

NextHTML == RunExtractHTML

SpecHTML == InitHTML /\ [][NextHTML]_vars

\* The positions of the text nodes outside script, and whether a tag of a
\* block element stands between two positions.
VisibleText == {k \in 1..Len(htIn) : htIn[k].type = "text" /\ htIn[k].data # "s"}
BlockBetween(j, k) ==
    \E m \in (j + 1)..(k - 1) : htIn[m].type # "text" /\ isBlockElement(htIn[m].data)

\* C26: the output of the HTML extractor holds a single newline at the
\* boundary of every block-level element that separates two text nodes,
\* so that text of different block elements is on different lines, and
\* text inside <script> is never emitted.
C26_BlockBoundaryNewline ==
    htOut.done =>
        /\ \A k \in 1..Len(htOut.out) : htOut.out[k] # "s"
        /\ \A j, k \in VisibleText :
              (j < k /\ (\A m \in VisibleText : ~(j < m /\ m < k)) /\ BlockBetween(j, k)) =>
                 \E i \in 1..(Len(htOut.out) - 2) :
                    /\ htOut.out[i] = htIn[j].data
                    /\ htOut.out[i + 1] = "\n"
                    /\ htOut.out[i + 2] = htIn[k].data

\* ------------------------------------------------------------------------
\* SpecLog: testPipelineHandler and the background task it starts, on the
\* one PipelineLogger they share.  A step is the Status of a PipelineStep.
\* ------------------------------------------------------------------------

\* The most chunks of the uploaded document.
MaxLogChunks == 2

\* The steps ProcessDocumentWithLogging logs before it returns: up to the
\* failed read, extraction or insert, or up to the start of the task.
SyncSteps(io) ==
    IF io = "read_fail" THEN <<"started", "started", "error">>
    ELSE IF io = "extract_fail" THEN <<"started", "started", "success", "started", "error">>
    ELSE IF io = "db_fail"
    THEN <<"started", "started", "success", "started", "success", "started", "error">>
    ELSE <<"started", "started", "success", "started", "success", "started", "success",
           "started">>

\* LogStep: p.Steps = append(p.Steps, PipelineStep{...}).
LogStep(steps, status) == Append(steps, status)

\* GetSummary: the counts over p.Steps at the time of the call.
GetSummary(steps) ==
    LET successful == Cardinality({k \in 1..Len(steps) : steps[k] = "success"})
        failed == Cardinality({k \in 1..Len(steps) : steps[k] = "error"})
    IN [total_steps |-> Len(steps), successful_steps |-> successful,
        failed_steps |-> failed,
        status |-> IF failed > 0 THEN "partial_success"
                   ELSE IF successful > 0 THEN "success" ELSE "in_progress"]

InitLog ==
    /\ lgSteps = <<>> /\ lgHandler = [pc |-> "idle"] /\ lgTask = [pc |-> "idle"]
    /\ HTMLIdle /\ ChatIdle
    /\ SchemaIdle /\ FusionIdle /\ VectorIdle
    /\ ConfigIdle /\ StoreIdle /\ ChunkIdle /\ RankIdle /\ AdaptorIdle /\ QAIdle

LogUnchanged ==
    UNCHANGED <<htmlVars, chatVars, schemaVars, fusionVars, vectorVars,
                configVars, storeVars, chunkVars, rankVars, adaptorVars, qaVars>>

\* testPipelineHandler up to the return of ProcessDocumentWithLogging: the
\* steps logged on the way, and on success the task started with `go` on
\* the same logger (n is the number of chunks its text will give).
HandlerProcess(io, n) ==
    /\ lgHandler.pc = "idle"
    /\ lgSteps' = SyncSteps(io)
    /\ lgHandler' = [pc |-> "complete", err |-> io # "ok"]
    /\ lgTask' = IF io = "ok" THEN [pc |-> "chunking_start", n |-> n, i |-> 0]
                 ELSE lgTask
    /\ LogUnchanged

\* logger.Complete() in the handler.
HandlerComplete ==
    /\ lgHandler.pc = "complete"
    /\ lgHandler' = [lgHandler EXCEPT !.pc = "read_steps"]
    /\ UNCHANGED <<lgSteps, lgTask>>
    /\ LogUnchanged

\* "steps": logger.Steps, the slice as it is when the map is built.
HandlerReadSteps ==
    /\ lgHandler.pc = "read_steps"
    /\ lgHandler' = [pc |-> "get_summary", err |-> lgHandler.err, steps |-> lgSteps]
    /\ UNCHANGED <<lgSteps, lgTask>>
    /\ LogUnchanged

\* "summary": logger.GetSummary(), and the response is sent.
HandlerGetSummary ==
    /\ lgHandler.pc = "get_summary"
    /\ lgHandler' = [pc |-> "done", err |-> lgHandler.err, steps |-> lgHandler.steps,
                     summary |-> GetSummary(lgSteps)]
    /\ UNCHANGED <<lgSteps, lgTask>>
    /\ LogUnchanged

\* The position of the task after its attempt on chunk i.
AfterChunk(task) ==
    [task EXCEPT !.i = task.i + 1,
                 !.pc = IF task.i + 1 < task.n THEN "save_start" ELSE "summary"]

\* processTextAsyncWithLogging: one LogStart, LogSuccess or LogError, in
\* the order of the code; ok is whether the operation logged succeeded.
TaskLog(ok) ==
    /\ lgTask.pc \in {"chunking_start", "chunking_done", "save_start", "save_done",
                      "embed_start", "embed_done", "summary"}
    /\ lgSteps' = LogStep(lgSteps,
                     IF lgTask.pc \in {"chunking_start", "save_start", "embed_start"}
                     THEN "started"
                     ELSE IF lgTask.pc \in {"chunking_done", "summary"} \/ ok THEN "success"
                     ELSE "error")
    /\ lgTask' =
         IF lgTask.pc = "chunking_start" THEN [lgTask EXCEPT !.pc = "chunking_done"]
         ELSE IF lgTask.pc = "chunking_done"
         THEN [lgTask EXCEPT !.pc = IF lgTask.n = 0 THEN "summary" ELSE "save_start"]
         ELSE IF lgTask.pc = "save_start" THEN [lgTask EXCEPT !.pc = "save_done"]
         ELSE IF lgTask.pc = "save_done"
         THEN (IF ok THEN [lgTask EXCEPT !.pc = "embed_start"] ELSE AfterChunk(lgTask))
         ELSE IF lgTask.pc = "embed_start" THEN [lgTask EXCEPT !.pc = "embed_done"]
         ELSE IF lgTask.pc = "embed_done" THEN AfterChunk(lgTask)
         ELSE [lgTask EXCEPT !.pc = "complete"]
    /\ UNCHANGED lgHandler
    /\ LogUnchanged

\* The deferred logger.Complete() and logger.Print() of the task.
TaskLogComplete ==
    /\ lgTask.pc = "complete"
    /\ lgTask' = [lgTask EXCEPT !.pc = "done"]
    /\ UNCHANGED <<lgSteps, lgHandler>>
    /\ LogUnchanged

NextLog ==
    \/ \E io \in {"ok", "read_fail", "extract_fail", "db_fail"}, n \in 0..MaxLogChunks :
          HandlerProcess(io, n)
    \/ HandlerComplete
    \/ HandlerReadSteps
    \/ HandlerGetSummary
    \/ \E ok \in BOOLEAN : TaskLog(ok)
    \/ TaskLogComplete

SpecLog == InitLog /\ [][NextLog]_vars

\* The handler is about to access the logger; the task is about to write it.
HandlerAccessing == lgHandler.pc \in {"complete", "read_steps", "get_summary"}
TaskWriting == lgTask.pc \notin {"idle", "done"}

\* C28: the PipelineLogger is never accessed concurrently with a write: the
\* handler's Complete(), its read of Steps and its GetSummary() do not
\* interleave with the appends of the background task that received the
\* same logger, so the pipeline_log returned is a consistent snapshot (its
\* summary counts the steps it lists).
C28_LoggerNotShared ==
    /\ ~(HandlerAccessing /\ TaskWriting)
    /\ lgHandler.pc = "done" => lgHandler.summary = GetSummary(lgHandler.steps)

\* ------------------------------------------------------------------------
\* SpecChat: ChatService.ProcessMessage over chat_conversations and
\* chat_messages
\* ------------------------------------------------------------------------

\* The rows chat_conversations and chat_messages may hold.
MaxConversations == 2
MaxChatMessages == 4

\* The number of messages getConversationHistory is asked for.
HistoryLimit == 5

\* The messages users send: one without a pronoun, two that contain one.
ChatTexts ==
    { [text |-> "what is RAG", pronoun |-> FALSE],
      [text |-> "how does it work", pronoun |-> TRUE],
      [text |-> "who wrote this", pronoun |-> TRUE] }

\* getOrCreateConversation: [err, id, convs].  A given id is used when a
\* row with that id and user exists; otherwise (no id, or no such row) a
\* new conversation is created.
getOrCreateConversation(convs, userID, conversationID, io) ==
    IF conversationID # 0 /\ \E c \in convs : c.id = conversationID /\ c.user_id = userID
    THEN [err |-> FALSE, id |-> conversationID, convs |-> convs]
    ELSE IF io = "conv_fail" THEN [err |-> TRUE, id |-> 0, convs |-> convs]
    ELSE LET id == Cardinality(convs) + 1
         IN [err |-> FALSE, id |-> id,
             convs |-> convs \cup {[id |-> id, user_id |-> userID]}]

\* saveMessage: the row appended to chat_messages (created_at = time.Now()).
saveMessage(messages, conversationID, role, content) ==
    Append(messages, [conversation_id |-> conversationID, role |-> role,
                      content |-> content])

\* getConversationHistory: the last `limit` messages of the conversation,
\* oldest first.
getConversationHistory(messages, conversationID, limit) ==
    LET mine == SelectSeq(messages, LAMBDA m : m.conversation_id = conversationID)
    IN IF Len(mine) > limit THEN SubSeq(mine, Len(mine) - limit + 1, Len(mine)) ELSE mine

\* enhanceQueryWithContext: the query, with the content of the last user
\* message of the history as its context when the query holds a pronoun.
\* context "" stands for the query sent as it is.
enhanceQueryWithContext(query, history) ==
    LET users == {k \in 1..Len(history) : history[k].role = "user"}
    IN IF history = <<>> \/ ~query.pronoun \/ users = {}
       THEN [context |-> "", question |-> query.text]
       ELSE [context |-> history[CHOOSE k \in users : \A j \in users : j <= k].content,
             question |-> query.text]

\* formatChatResponse: the content of the assistant's message.
formatChatResponse(answers) == IF answers = 0 THEN "no_information" ELSE "answer"

InitChat ==
    /\ chConvs = {} /\ chMessages = <<>> /\ chOut = NotRun
    /\ HTMLIdle /\ LogIdle
    /\ SchemaIdle /\ FusionIdle /\ VectorIdle
    /\ ConfigIdle /\ StoreIdle /\ ChunkIdle /\ RankIdle /\ AdaptorIdle /\ QAIdle

\* ProcessMessage.  conversationID 0 is a request without one.  io is the
\* step the environment fails, answers the number of answers of QASearch.
ProcessMessage(userID, conversationID, message, io, answers) ==
    /\ Len(chMessages) + 2 <= MaxChatMessages
    /\ Cardinality(chConvs) < MaxConversations
          \/ \E c \in chConvs : c.id = conversationID /\ c.user_id = userID
    /\ LET conv == getOrCreateConversation(chConvs, userID, conversationID, io)
           withUser == saveMessage(chMessages, conv.id, "user", message.text)
           history == getConversationHistory(withUser, conv.id, HistoryLimit)
           enhancedQuery == enhanceQueryWithContext(message, history)
           withBoth == saveMessage(withUser, conv.id, "assistant",
                                   formatChatResponse(answers))
           out == [err |-> TRUE, conversation_id |-> conv.id, message |-> message,
                   sent |-> FALSE, query |-> [context |-> "", question |-> ""]]
       IN IF conv.err
          THEN /\ chOut' = Returned(out)
               /\ UNCHANGED <<chConvs, chMessages>>
          ELSE IF io = "save_user_fail"
          THEN /\ chOut' = Returned(out)
               /\ chConvs' = conv.convs
               /\ UNCHANGED chMessages
          ELSE IF io = "history_fail"
          THEN /\ chOut' = Returned(out)
               /\ chConvs' = conv.convs
               /\ chMessages' = withUser
          ELSE IF io = "qa_fail"
          THEN /\ chOut' = Returned([out EXCEPT !.sent = TRUE, !.query = enhancedQuery])
               /\ chConvs' = conv.convs
               /\ chMessages' = withUser
          ELSE IF io = "save_ai_fail"
          THEN /\ chOut' = Returned([out EXCEPT !.sent = TRUE, !.query = enhancedQuery])
               /\ chConvs' = conv.convs
               /\ chMessages' = withUser
          ELSE /\ chOut' = Returned([out EXCEPT !.err = FALSE, !.sent = TRUE,
                                                !.query = enhancedQuery])
               /\ chConvs' = conv.convs
               /\ chMessages' = withBoth
    /\ UNCHANGED <<htmlVars, logVars, schemaVars, fusionVars, vectorVars,
                   configVars, storeVars, chunkVars, rankVars, adaptorVars, qaVars>>

NextChat ==
    \E userID \in Users, conversationID \in 0..MaxConversations, message \in ChatTexts,
       io \in {"ok", "conv_fail", "save_user_fail", "history_fail", "qa_fail",
               "save_ai_fail"},
       answers \in {0, 1} :
          ProcessMessage(userID, conversationID, message, io, answers)

SpecChat == InitChat /\ [][NextChat]_vars

\* The messages of a conversation, oldest first.
MessagesOf(messages, conversationID) ==
    SelectSeq(messages, LAMBDA m : m.conversation_id = conversationID)

\* The content of the most recent user message of a conversation, "" when
\* it has none.
LastUserContent(messages, conversationID) ==
    LET mine == MessagesOf(messages, conversationID)
        users == {k \in 1..Len(mine) : mine[k].role = "user"}
    IN IF users = {} THEN ""
       ELSE mine[CHOOSE k \in users : \A j \in users : j <= k].content

\* C29: when the current message holds a pronoun and the conversation
\* already holds an earlier user message, the query ProcessMessage sends to
\* QASearch is prefixed with the content of the most recent user message
\* before the current one; when there is no earlier user message the query
\* is sent unchanged.
C29_ContextFromEarlierMessage ==
    [][ (chOut'.done /\ chOut'.out.sent /\ chOut'.out.message.pronoun) =>
           /\ chOut'.out.query.question = chOut'.out.message.text
           /\ chOut'.out.query.context =
                 LastUserContent(chMessages, chOut'.out.conversation_id)
      ]_vars

\* C30: ProcessMessage is all-or-nothing on the conversation: when it
\* returns an error the stored messages are unchanged, and when it succeeds
\* exactly one user message followed by one assistant message was appended.
C30_AllOrNothing ==
    [][ /\ (chOut'.done /\ chOut'.out.err) => chMessages' = chMessages
        /\ (chOut'.done /\ ~chOut'.out.err) =>
              /\ Len(chMessages') = Len(chMessages) + 2
              /\ SubSeq(chMessages', 1, Len(chMessages)) = chMessages
              /\ chMessages'[Len(chMessages) + 1] =
                    [conversation_id |-> chOut'.out.conversation_id, role |-> "user",
                     content |-> chOut'.out.message.text]
              /\ chMessages'[Len(chMessages) + 2].role = "assistant"
              /\ chMessages'[Len(chMessages) + 2].conversation_id =
                    chOut'.out.conversation_id
      ]_vars

====
